---- MODULE Spec2Model ----
(***************************************************************************)
(* Coverage-report ingestion and low-coverage selection of the PR coverage *)
(* analyzer: the Cobertura parser (src/src/analyzers/cobertura_parser.py)  *)
(* and the coverage analyzer (src/src/analyzers/coverage_analyzer.py).     *)
(*                                                                         *)
(* Conventions.                                                            *)
(*  - An XML element is a function from the names of the attributes it     *)
(*    carries to their text; elem.get(k, d) is Get(elem, k, d).            *)
(*  - int() and float() are the tables IntLit and FloatLit: a text outside *)
(*    the table raises ValueError.                                         *)
(*  - A Python float f is held as the integer 100 * f (two decimals), so   *)
(*    line_rate * 100 is a multiplication by 100 of that integer and an    *)
(*    integer threshold T is compared as 100 * T. float('nan') is NaN:     *)
(*    arithmetic on it gives NaN and no comparison with it is true.        *)
(*  - A condition-coverage text is the sequence of its characters, so the  *)
(*    substring test of the parser is computed on it.                      *)
(***************************************************************************)
EXTENDS Integers, Sequences, FiniteSets, TLC

VARIABLES
    \* ---- CoberturaParser._extract_files_coverage / _extract_lines_data
    pc,          \* "classes": between <class> elements; "lines": inside the
                 \* <line> loop of one class; "done": files returned
    class_elem,  \* the <class> element being extracted
    line_elem,   \* the <line> element the loop body last ran on
    lines_data,  \* lines_data of the class being extracted
    files,       \* files: filename -> file entry
    warnings,    \* number of logger.warning calls made by the extraction
    nclasses,    \* <class> elements consumed so far
    nlines,      \* <line> elements consumed in the current class
    \* ---- CoverageAnalyzer._find_low_coverage_areas
    coverage_report,     \* the report handed to the selector
    threshold,           \* the integer threshold handed to the selector
    low_coverage_areas,  \* the returned list
    sel_pc,              \* "call" | "returned"
    \* ---- CoberturaParser._extract_overall_coverage
    root,        \* attributes of the <coverage> root
    totals,      \* the returned coverage_data
    ov_pc,       \* "call" | "returned"
    \* ---- CoberturaParser.parse_coverage_file / _parse_existing_coverage
    report_file, \* the report on disk: path facts and content
    outcome,     \* what the call produced: value returned or exception escaped
    expanded,    \* TRUE once some XML parser expanded a declared entity
    attempts,    \* the parsers _parse_existing_coverage ran, in order
    px_pc,       \* "idle" | "returned"
    \* ---- CoverageAnalyzer and PRCoverageAnalyzer entry points
    call_args,   \* what the operation under way was called with, and the
                 \* environment it reads (working directory, files on disk)
    call_result, \* what it has computed so far, and at the end returned
    calls,       \* the collaborator calls it has made, in order
    an_pc        \* "idle", or the step the operation is at

cobVars == <<pc, class_elem, line_elem, lines_data, files, warnings, nclasses, nlines>>
selVars == <<coverage_report, threshold, low_coverage_areas, sel_pc>>
ovVars  == <<root, totals, ov_pc>>
pxVars  == <<report_file, outcome, expanded, attempts, px_pc>>
anVars  == <<call_args, call_result, calls, an_pc>>
vars    == <<cobVars, selVars, ovVars, pxVars, anVars>>

(***************************************************************************)
(* Bounds of the model.                                                    *)
(***************************************************************************)
MaxLines == 2
MaxClasses == 2
MaxClassLines == 2
MaxFiles == 3
MaxReportFiles == 2
MaxJacocoLines == 2

(***************************************************************************)
(* XML attributes and Python conversions.                                  *)
(***************************************************************************)
Get(elem, k, d) == IF k \in DOMAIN elem THEN elem[k] ELSE d

Opt(name, vals) == {(name :> v) : v \in vals} \cup {<<>>}
Req(name, vals) == {(name :> v) : v \in vals}

\* int(text): the texts int() accepts, with their values.
IntLit ==
    ("0" :> 0) @@ ("1" :> 1) @@ ("2" :> 2) @@ ("3" :> 3) @@ ("10" :> 10) @@ ("-1" :> (0 - 1))

\* float('nan'), which float() also reads from the texts "nan" and "NaN".
NaN == -999999

\* float(text), in hundredths.
FloatLit ==
    ("0" :> 0) @@ ("0.3" :> 30) @@ ("0.5" :> 50) @@ ("0.75" :> 75) @@ ("1.0" :> 100)
        @@ ("1.5" :> 150) @@ ("nan" :> NaN)

\* x * k and x == y on floats.
float_times(x, k) == IF x = NaN THEN NaN ELSE x * k
float_eq(x, y) == x # NaN /\ y # NaN /\ x = y

\* int(elem.get(k, 0)): the default 0 is already an int.
IntOk(elem, k) == k \notin DOMAIN elem \/ elem[k] \in DOMAIN IntLit
IntOf(elem, k) == IF k \in DOMAIN elem THEN IntLit[elem[k]] ELSE 0

\* float(elem.get(k, 0))
FloatOk(elem, k) == k \notin DOMAIN elem \/ elem[k] \in DOMAIN FloatLit
FloatOf(elem, k) == IF k \in DOMAIN elem THEN FloatLit[elem[k]] ELSE 0

\* str.lower() on the texts a branch attribute takes.
Lower(s) ==
    CASE s = "True" -> "true"
      [] s = "TRUE" -> "true"
      [] s = "False" -> "false"
      [] OTHER -> s

\* sub in s, for character sequences.
Contains(sub, s) ==
    \E i \in 1..(Len(s) - Len(sub) + 1) : SubSeq(s, i, i + Len(sub) - 1) = sub

Str100 == <<"1", "0", "0", "%">>
Str100Full == <<"1", "0", "0", "%", " ", "(", "2", "/", "2", ")">>
Str50Full == <<"5", "0", "%", " ", "(", "1", "/", "2", ")">>

Range(s) == {s[i] : i \in 1..Len(s)}
NoDuplicates(s) == \A i, j \in 1..Len(s) : i # j => s[i] # s[j]

(***************************************************************************)
(* CoberturaParser._extract_lines_data                                     *)
(***************************************************************************)
EmptyLinesData ==
    [missing_lines |-> <<>>, covered_lines |-> <<>>, partial_lines |-> <<>>,
     line_details |-> <<>>]

\* The if/elif/else that files a parsed line.
classify_branch_first(hits, branch, condition_coverage) ==
    IF branch /\ condition_coverage # <<>> /\ ~Contains(Str100, condition_coverage)
    THEN "partial_lines"
    ELSE IF hits = 0 THEN "missing_lines" ELSE "covered_lines"

classify_exact_100(hits, branch, condition_coverage) ==
    IF hits = 0 THEN "missing_lines"
    ELSE IF branch /\ condition_coverage # <<>> /\ condition_coverage # Str100
    THEN "partial_lines"
    ELSE "covered_lines"

classify(hits, branch, condition_coverage) ==
    IF hits = 0 THEN "missing_lines"
    ELSE IF branch /\ condition_coverage # <<>> /\ ~Contains(Str100, condition_coverage)
    THEN "partial_lines"
    ELSE "covered_lines"

\* int(number) and int(hits) both succeed.
LineParses(e) == IntOk(e, "number") /\ IntOk(e, "hits")

line_info(e) ==
    [hits |-> IntOf(e, "hits"),
     branch |-> (Lower(Get(e, "branch", "false")) = "true"),
     condition_coverage |-> Get(e, "condition-coverage", <<>>)]

\* One pass of the body of `for line_elem in lines_elem.findall('line')`:
\* the lines_data it leaves. A ValueError leaves lines_data as it was.
line_body_details_first(ld, e) ==
    IF ~IntOk(e, "number") THEN ld
    ELSE LET line_number == IntOf(e, "number")
             info == [hits |-> 0, branch |-> FALSE, condition_coverage |-> <<>>]
         IN  IF ~IntOk(e, "hits")
             THEN [ld EXCEPT !.line_details = (line_number :> info) @@ @]
             ELSE LET li == line_info(e)
                      list == classify(li.hits, li.branch, li.condition_coverage)
                  IN  [ld EXCEPT !.line_details = (line_number :> li) @@ @,
                                 ![list] = Append(@, line_number)]

line_body(ld, e) ==
    IF ~LineParses(e) THEN ld
    ELSE LET line_number == IntOf(e, "number")
             li == line_info(e)
             list == classify(li.hits, li.branch, li.condition_coverage)
         IN  [ld EXCEPT !.line_details = (line_number :> li) @@ @,
                        ![list] = Append(@, line_number)]

(***************************************************************************)
(* CoberturaParser._extract_files_coverage                                 *)
(***************************************************************************)
\* `if not filename: continue`
HasFilename(c) == Get(c, "filename", "") # ""

\* float(line-rate) and float(branch-rate) both succeed.
ClassParses(c) == FloatOk(c, "line-rate") /\ FloatOk(c, "branch-rate")

\* The entry files[filename] is set to.
file_entry(c, ld) ==
    [summary |-> [percent_covered |-> float_times(FloatOf(c, "line-rate"), 100),
                  line_rate |-> FloatOf(c, "line-rate"),
                  branch_rate |-> FloatOf(c, "branch-rate")],
     missing_lines |-> ld.missing_lines,
     covered_lines |-> ld.covered_lines,
     partial_lines |-> ld.partial_lines,
     line_details |-> ld.line_details]

NoElem == <<>>

\* The <line> elements the line loop is run on.
LineElems ==
    {n @@ h @@ b @@ c :
        n \in Req("number", {"1", "2", "notint"}),
        h \in Opt("hits", {"0", "3", "NaN"}),
        b \in Opt("branch", {"false", "True"}),
        c \in Opt("condition-coverage", {Str50Full, Str100, Str100Full})}

\* The <line> and <class> elements of the documents of the class loop.
ClassLineElems ==
    {n @@ h : n \in Req("number", {"1", "notint"}),
              h \in Req("hits", {"0", "1", "NaN"})}

ClassElems ==
    {f @@ l @@ b :
        f \in Opt("filename", {"a.py", "b.py"}),
        l \in Opt("line-rate", {"0.5", "oops"}),
        b \in Req("branch-rate", {"0.3", "oops"})}

\* The loop reaches the next <class>: no filename, skip; a rate that is not a
\* number, warn and skip; else enter the line loop of the class.
NextClass ==
    /\ pc = "classes"
    /\ nclasses < MaxClasses
    /\ \E c \in ClassElems :
        /\ class_elem' = c
        /\ nclasses' = nclasses + 1
        /\ IF ~HasFilename(c)
           THEN pc' = "classes" /\ warnings' = warnings
           ELSE IF ~ClassParses(c)
           THEN pc' = "classes" /\ warnings' = warnings + 1
           ELSE pc' = "lines" /\ warnings' = warnings
    /\ lines_data' = EmptyLinesData
    /\ nlines' = 0
    /\ line_elem' = NoElem
    /\ UNCHANGED <<files, selVars, ovVars, pxVars, anVars>>

\* The line loop runs its body on the next <line> of the class.
ExtractLine(alphabet, bound) ==
    /\ pc = "lines"
    /\ nlines < bound
    /\ \E e \in alphabet :
        /\ line_elem' = e
        /\ lines_data' = line_body(lines_data, e)
        /\ warnings' = IF LineParses(e) THEN warnings ELSE warnings + 1
    /\ nlines' = nlines + 1
    /\ UNCHANGED <<pc, class_elem, files, nclasses, selVars, ovVars, pxVars, anVars>>

ExtractRichLine == ExtractLine(LineElems, MaxLines)
ExtractClassLine == ExtractLine(ClassLineElems, MaxClassLines)

\* The line loop ends: files[filename] = {...}.
EndLines ==
    /\ pc = "lines"
    /\ files' = (Get(class_elem, "filename", "") :> file_entry(class_elem, lines_data))
                    @@ files
    /\ pc' = "classes"
    /\ UNCHANGED <<class_elem, line_elem, lines_data, warnings, nclasses, nlines,
                   selVars, ovVars, pxVars, anVars>>

\* No <class> is left: return files.
ReturnFiles ==
    /\ pc = "classes"
    /\ pc' = "done"
    /\ UNCHANGED <<class_elem, line_elem, lines_data, files, warnings, nclasses,
                   nlines, selVars, ovVars, pxVars, anVars>>

IdleCob ==
    /\ pc = "idle" /\ class_elem = NoElem /\ line_elem = NoElem
    /\ lines_data = EmptyLinesData /\ files = <<>> /\ warnings = 0
    /\ nclasses = 0 /\ nlines = 0
IdleSel ==
    /\ coverage_report = <<>> /\ threshold = 0 /\ low_coverage_areas = <<>>
    /\ sel_pc = "idle"
IdleOv == root = <<>> /\ totals = <<>> /\ ov_pc = "idle"
IdlePx ==
    /\ report_file = <<>> /\ outcome = <<>> /\ expanded = FALSE
    /\ attempts = <<>> /\ px_pc = "idle"
IdleAn == call_args = <<>> /\ call_result = <<>> /\ calls = <<>> /\ an_pc = "idle"

\* _extract_lines_data on one well-formed <class>.
InitLines ==
    /\ pc = "lines"
    /\ class_elem = ("filename" :> "a.py") @@ ("line-rate" :> "0.5")
                        @@ ("branch-rate" :> "0.3")
    /\ line_elem = NoElem /\ lines_data = EmptyLinesData /\ files = <<>>
    /\ warnings = 0 /\ nclasses = 1 /\ nlines = 0
    /\ IdleSel /\ IdleOv /\ IdlePx /\ IdleAn

NextLines == ExtractRichLine \/ EndLines

SpecLines == InitLines /\ [][NextLines]_vars

\* _extract_files_coverage on a document.
InitFiles ==
    /\ pc = "classes"
    /\ class_elem = NoElem /\ line_elem = NoElem /\ lines_data = EmptyLinesData
    /\ files = <<>> /\ warnings = 0 /\ nclasses = 0 /\ nlines = 0
    /\ IdleSel /\ IdleOv /\ IdlePx /\ IdleAn

NextFiles == NextClass \/ ExtractClassLine \/ EndLines \/ ReturnFiles

SpecFiles == InitFiles /\ [][NextFiles]_vars

(***************************************************************************)
(* Claims on the Cobertura line and class loops.                           *)
(***************************************************************************)
\* The step is one pass of the line loop body, on line_elem'.
LineStep == pc = "lines" /\ nlines' = nlines + 1

\* The pass appended line_number to `list` and left the other two lists alone.
PlacedOnlyIn(list) ==
    LET line_number == IntOf(line_elem', "number") IN
    \A l \in {"missing_lines", "covered_lines", "partial_lines"} :
        lines_data'[l] = IF l = list THEN Append(lines_data[l], line_number)
                         ELSE lines_data[l]

\* C1: a <line> with hits == 0 is appended to missing_lines, and to neither
\* covered_lines nor partial_lines, whatever its branch flag and its
\* condition-coverage text are.
C1_ZeroHitsIsMissing ==
    [][(LineStep /\ LineParses(line_elem') /\ IntOf(line_elem', "hits") = 0)
          => PlacedOnlyIn("missing_lines")]_vars

\* A zero-hit line that is a branch with incomplete condition coverage was
\* filed under missing_lines only.
C1_Witness ==
    /\ pc = "lines" /\ nlines = 1
    /\ LineParses(line_elem) /\ IntOf(line_elem, "hits") = 0
    /\ Get(line_elem, "branch", "false") = "True"
    /\ Get(line_elem, "condition-coverage", <<>>) = Str50Full
    /\ lines_data.missing_lines = <<IntOf(line_elem, "number")>>
    /\ lines_data.covered_lines = <<>> /\ lines_data.partial_lines = <<>>

\* C2 as stated: for hits > 0, a branch line whose condition-coverage is
\* present and is not exactly "100%" is partial; a branch line whose
\* condition-coverage is exactly "100%" or absent/empty, and every
\* non-branch line, is covered.
C2_ExactText ==
    [][(LineStep /\ LineParses(line_elem') /\ IntOf(line_elem', "hits") > 0)
          => LET li == line_info(line_elem') IN
             IF li.branch /\ li.condition_coverage # <<>>
                          /\ li.condition_coverage # Str100
             THEN PlacedOnlyIn("partial_lines")
             ELSE PlacedOnlyIn("covered_lines")]_vars

\* C2 amended: for hits > 0, a branch line whose condition-coverage is
\* present and does not contain "100%" is partial; a branch line whose
\* condition-coverage contains "100%" or is absent/empty, and every
\* non-branch line, is covered.
C2_SubstringText ==
    [][(LineStep /\ LineParses(line_elem') /\ IntOf(line_elem', "hits") > 0)
          => LET li == line_info(line_elem') IN
             IF li.branch /\ li.condition_coverage # <<>>
                          /\ ~Contains(Str100, li.condition_coverage)
             THEN PlacedOnlyIn("partial_lines")
             ELSE PlacedOnlyIn("covered_lines")]_vars

\* A hit branch line with "50% (1/2)" was filed as partial after a hit branch
\* line with "100% (2/2)" was filed as covered.
C2_Witness ==
    /\ pc = "lines" /\ nlines = 2
    /\ LineParses(line_elem) /\ IntOf(line_elem, "hits") > 0
    /\ Get(line_elem, "branch", "false") = "True"
    /\ Get(line_elem, "condition-coverage", <<>>) = Str50Full
    /\ lines_data.partial_lines = <<IntOf(line_elem, "number")>>
    /\ Len(lines_data.covered_lines) = 1
    /\ LET d == lines_data.line_details[lines_data.covered_lines[1]] IN
       d.branch /\ d.condition_coverage = Str100Full /\ d.hits > 0

\* C3: missing_lines, covered_lines and partial_lines are pairwise disjoint,
\* hold no duplicates, and their union is the key set of line_details, for
\* any sequence of well-formed <line> elements, repeated numbers included.
C3_LineSetsPartition ==
    LET m == lines_data.missing_lines
        c == lines_data.covered_lines
        p == lines_data.partial_lines
    IN  /\ Range(m) \cap Range(c) = {}
        /\ Range(m) \cap Range(p) = {}
        /\ Range(c) \cap Range(p) = {}
        /\ NoDuplicates(m) /\ NoDuplicates(c) /\ NoDuplicates(p)
        /\ Range(m) \cup Range(c) \cup Range(p) = DOMAIN lines_data.line_details

\* The step is the class loop reaching class_elem'.
ClassStep == pc = "classes" /\ nclasses' = nclasses + 1

\* C10: a <class> without a filename or with a non-numeric line-rate or
\* branch-rate adds no entry to files, a <line> whose number or hits is not
\* an integer adds nothing to the three lists nor to line_details, and in
\* both cases the loop goes on: a well-formed <line> is recorded in
\* line_details and filed in its list, and a well-formed <class> gets its
\* files entry with the lines_data extracted for it.
C10_ElementIsolation ==
    [][/\ (ClassStep /\ ~(HasFilename(class_elem') /\ ClassParses(class_elem')))
            => (files' = files /\ pc' = "classes")
       /\ (ClassStep /\ HasFilename(class_elem') /\ ClassParses(class_elem'))
            => (pc' = "lines" /\ lines_data' = EmptyLinesData)
       /\ (LineStep /\ ~LineParses(line_elem'))
            => (lines_data' = lines_data /\ pc' = "lines")
       /\ (LineStep /\ LineParses(line_elem'))
            => LET n == IntOf(line_elem', "number") IN
               /\ pc' = "lines"
               /\ n \in DOMAIN lines_data'.line_details
               /\ lines_data'.line_details[n] = line_info(line_elem')
               /\ \E l \in {"missing_lines", "covered_lines", "partial_lines"} :
                      PlacedOnlyIn(l)
       /\ (pc = "lines" /\ pc' = "classes")
            => LET f == Get(class_elem, "filename", "") IN
               /\ HasFilename(class_elem) /\ ClassParses(class_elem)
               /\ DOMAIN files' = DOMAIN files \cup {f}
               /\ files'[f] = file_entry(class_elem, lines_data)
               /\ \A g \in DOMAIN files \ {f} : files'[g] = files[g]
       /\ (pc' = "done") => files' = files
      ]_vars

\* After a <class> with a bad rate and a <line> with a bad number were each
\* skipped with a warning, the files returned hold a well-formed class with
\* a well-formed line that followed the bad one.
C10_Witness ==
    /\ pc = "done" /\ warnings >= 2 /\ nclasses = MaxClasses
    /\ HasFilename(class_elem) /\ ClassParses(class_elem)
    /\ Get(class_elem, "filename", "") \in DOMAIN files
    /\ nlines = 2 /\ LineParses(line_elem)
    /\ DOMAIN files[Get(class_elem, "filename", "")].line_details
           = {IntOf(line_elem, "number")}
    /\ Len(files[Get(class_elem, "filename", "")].missing_lines)
         + Len(files[Get(class_elem, "filename", "")].covered_lines) = 1

(***************************************************************************)
(* CoverageAnalyzer._find_low_coverage_areas                               *)
(*                                                                         *)
(* A dict is the sequence of its items in insertion order, the keys        *)
(* distinct: files.items() walks it in that order and list.sort is stable. *)
(***************************************************************************)
Pct(x) == x * 100

\* files = coverage_report.get("files", coverage_report.get("file_coverage", {}))
files_of(report) == Get(report, "files", Get(report, "file_coverage", <<>>))

\* file_data.get("percent_covered",
\*               file_data.get("summary", {}).get("percent_covered", 0))
percent_of(file_data) ==
    Get(file_data, "percent_covered",
        Get(Get(file_data, "summary", <<>>), "percent_covered", 0))

\* `if file_coverage < threshold:`
is_low_or_equal(file_coverage, t) == file_coverage <= Pct(t)

is_low(file_coverage, t) == file_coverage < Pct(t)

\* "high" if file_coverage < threshold * 0.5 else "medium"
priority_floor_half(file_coverage, t) ==
    IF file_coverage < Pct(t \div 2) THEN "high" ELSE "medium"

priority(file_coverage, t) ==
    IF 2 * file_coverage < Pct(t) THEN "high" ELSE "medium"

low_area(item, t) ==
    [file |-> item.file,
     current_coverage |-> percent_of(item.data),
     missing_lines |-> Get(item.data, "missing_lines", <<>>),
     priority |-> priority(percent_of(item.data), t)]

\* The for loop over files.items(): the areas appended, in order.
RECURSIVE collect_areas(_, _)
collect_areas(items, t) ==
    IF items = <<>> THEN <<>>
    ELSE LET rest == collect_areas(SubSeq(items, 1, Len(items) - 1), t)
             item == items[Len(items)]
         IN  IF is_low(percent_of(item.data), t)
             THEN Append(rest, low_area(item, t))
             ELSE rest

\* key=lambda x: (x["priority"] == "high", -x["current_coverage"])
sort_key(x) == <<x.priority = "high", 0 - x.current_coverage>>

\* Tuple order of two sort keys: False < True, then the numbers.
key_less(a, b) ==
    \/ (~a[1] /\ b[1])
    \/ (a[1] = b[1] /\ a[2] < b[2])

\* Whether key a sorts before key b: ascending, or descending under
\* reverse=True.
sorts_before(a, b, reverse) == IF reverse THEN key_less(b, a) ELSE key_less(a, b)

\* x put into a list already in order, behind every element that does not
\* come after it: equal keys keep their order of arrival (a stable sort).
RECURSIVE insert_by(_, _, _)
insert_by(x, sorted, reverse) ==
    IF sorted = <<>> THEN <<x>>
    ELSE IF sorts_before(sort_key(x), sort_key(sorted[Len(sorted)]), reverse)
         THEN Append(insert_by(x, SubSeq(sorted, 1, Len(sorted) - 1), reverse),
                     sorted[Len(sorted)])
         ELSE Append(sorted, x)

\* list.sort(key=sort_key, reverse=reverse)
RECURSIVE sort_by(_, _)
sort_by(areas, reverse) ==
    IF areas = <<>> THEN <<>>
    ELSE insert_by(areas[Len(areas)],
                   sort_by(SubSeq(areas, 1, Len(areas) - 1), reverse), reverse)

sort_areas_not_reversed(areas) == sort_by(areas, FALSE)

\* low_coverage_areas.sort(key=..., reverse=True)
sort_areas(areas) == sort_by(areas, TRUE)

find_low_coverage_areas(report, t) == sort_areas(collect_areas(files_of(report), t))

\* The reports the selector is called on.
FileKeys == <<"A", "B", "C", "D", "E">>

PercentValues == {Pct(5), Pct(10), Pct(40), Pct(70), Pct(80), Pct(90)}

Thresholds == {80, 81}

\* The per-file data of one report format: JaCoCo entries carry
\* percent_covered themselves, the others carry it in their summary.
FileData(shape) ==
    {pc_part @@ ml :
        pc_part \in (IF shape = "direct"
                     THEN Req("percent_covered", PercentValues)
                     ELSE {("summary" :> ("percent_covered" :> v)) : v \in PercentValues}
                          \cup {("summary" :> <<>>)}),
        ml \in Opt("missing_lines", {<<5, 10, 15>>})}

FilesDicts(shape, n) ==
    {[i \in 1..n |-> [file |-> FileKeys[i], data |-> d[i]]] :
        d \in [1..n -> FileData(shape)]}

Reports(n) ==
    {<<>>} \cup
    {(k :> fs) : k \in {"files", "file_coverage"},
                 fs \in FilesDicts("direct", n) \cup FilesDicts("summary", n)}

FindLowCoverageAreas ==
    /\ sel_pc = "call"
    /\ low_coverage_areas' = find_low_coverage_areas(coverage_report, threshold)
    /\ sel_pc' = "returned"
    /\ UNCHANGED <<coverage_report, threshold, cobVars, ovVars, pxVars, anVars>>

InitSelector ==
    /\ \E n \in 0..MaxFiles : coverage_report \in Reports(n)
    /\ threshold \in Thresholds
    /\ low_coverage_areas = <<>>
    /\ sel_pc = "call"
    /\ IdleCob /\ IdleOv /\ IdlePx /\ IdleAn

NextSelector == FindLowCoverageAreas

SpecSelector == InitSelector /\ [][NextSelector]_vars

(***************************************************************************)
(* Claims on the selector.                                                 *)
(***************************************************************************)
\* The percentage a file's data states, 0 when it states none.
StatedPercent(d) ==
    IF "percent_covered" \in DOMAIN d THEN d["percent_covered"]
    ELSE IF "summary" \in DOMAIN d /\ "percent_covered" \in DOMAIN d["summary"]
    THEN d["summary"]["percent_covered"]
    ELSE 0

AreasOf(f) == {i \in 1..Len(low_coverage_areas) : low_coverage_areas[i].file = f}

\* C4: a file has an entry in the result iff its percent_covered < T; a file
\* with percent_covered == T has none; each qualifying file has exactly one
\* entry, carrying that file's percent_covered and missing_lines.
C4_SelectorMembership ==
    sel_pc = "returned" =>
        LET fs == files_of(coverage_report) IN
        /\ \A i \in 1..Len(fs) :
              LET p == StatedPercent(fs[i].data) IN
              /\ (AreasOf(fs[i].file) # {}) <=> (p < Pct(threshold))
              /\ p = Pct(threshold) => AreasOf(fs[i].file) = {}
              /\ p < Pct(threshold) =>
                    /\ Cardinality(AreasOf(fs[i].file)) = 1
                    /\ \A a \in AreasOf(fs[i].file) :
                          /\ low_coverage_areas[a].current_coverage = p
                          /\ low_coverage_areas[a].missing_lines =
                                IF "missing_lines" \in DOMAIN fs[i].data
                                THEN fs[i].data["missing_lines"] ELSE <<>>
        /\ \A a \in 1..Len(low_coverage_areas) :
              \E i \in 1..Len(fs) : fs[i].file = low_coverage_areas[a].file

\* With T = 80, a file at exactly 80 was left out while a file at 70 with
\* missing lines and a file at 90 were judged.
C4_Witness ==
    /\ sel_pc = "returned" /\ threshold = 80
    /\ Len(files_of(coverage_report)) = 3
    /\ StatedPercent(files_of(coverage_report)[1].data) = Pct(80)
    /\ StatedPercent(files_of(coverage_report)[2].data) = Pct(70)
    /\ StatedPercent(files_of(coverage_report)[3].data) = Pct(90)
    /\ Len(low_coverage_areas) = 1
    /\ low_coverage_areas[1].file = "B"
    /\ low_coverage_areas[1].missing_lines = <<5, 10, 15>>

\* C5: every high-priority area precedes every medium-priority area, areas
\* of one priority are in ascending current_coverage, and with T = 80 and
\* files A = 10, B = 70, C = 5 the order is C, A, B.
C5_SelectorOrdering ==
    sel_pc = "returned" =>
        /\ \A i, j \in 1..Len(low_coverage_areas) :
              i < j =>
                /\ ~(low_coverage_areas[i].priority = "medium"
                        /\ low_coverage_areas[j].priority = "high")
                /\ low_coverage_areas[i].priority = low_coverage_areas[j].priority
                      => low_coverage_areas[i].current_coverage
                            <= low_coverage_areas[j].current_coverage
        /\ LET fs == files_of(coverage_report) IN
           (/\ threshold = 80 /\ Len(fs) = 3
            /\ StatedPercent(fs[1].data) = Pct(10)
            /\ StatedPercent(fs[2].data) = Pct(70)
            /\ StatedPercent(fs[3].data) = Pct(5))
             => [i \in 1..Len(low_coverage_areas) |-> low_coverage_areas[i].file]
                    = <<"C", "A", "B">>

\* The example of the claim: A = 10, B = 70, C = 5 under T = 80, returned as
\* C, A, B.
C5_Witness ==
    /\ sel_pc = "returned" /\ threshold = 80
    /\ Len(files_of(coverage_report)) = 3
    /\ StatedPercent(files_of(coverage_report)[1].data) = Pct(10)
    /\ StatedPercent(files_of(coverage_report)[2].data) = Pct(70)
    /\ StatedPercent(files_of(coverage_report)[3].data) = Pct(5)
    /\ Len(low_coverage_areas) = 3
    /\ low_coverage_areas[1].file = "C" /\ low_coverage_areas[1].priority = "high"
    /\ low_coverage_areas[2].file = "A" /\ low_coverage_areas[2].priority = "high"
    /\ low_coverage_areas[3].file = "B" /\ low_coverage_areas[3].priority = "medium"

\* C6: an emitted area has priority high iff its current_coverage is below
\* threshold / 2 (the exact half, 40.5 for 81), and medium otherwise.
C6_PriorityHalfThreshold ==
    \A a \in 1..Len(low_coverage_areas) :
        /\ low_coverage_areas[a].priority \in {"high", "medium"}
        /\ (low_coverage_areas[a].priority = "high")
              <=> (2 * low_coverage_areas[a].current_coverage < Pct(threshold))

\* Under T = 81 a file at 40 (below 40.5) came out high and a file at 70
\* medium; the same 40 under T = 80 is not below the half.
C6_Witness ==
    /\ sel_pc = "returned" /\ threshold = 81
    /\ \E a, b \in 1..Len(low_coverage_areas) :
          /\ low_coverage_areas[a].current_coverage = Pct(40)
          /\ low_coverage_areas[a].priority = "high"
          /\ low_coverage_areas[b].current_coverage = Pct(70)
          /\ low_coverage_areas[b].priority = "medium"

(***************************************************************************)
(* CoberturaParser._extract_overall_coverage                               *)
(*                                                                         *)
(* A call returns [exc, val]: exc is "none" and val the value returned, or *)
(* exc names the exception that left the call.                             *)
(***************************************************************************)
Returned(v) == [exc |-> "none", val |-> v]
Raised(e) == [exc |-> e, val |-> <<>>]

\* coverage_data as first built: every field zero.
ZeroTotals ==
    [lines_valid |-> 0, lines_covered |-> 0, line_rate |-> 0,
     branches_valid |-> 0, branches_covered |-> 0, branch_rate |-> 0,
     percent_covered |-> 0]

\* The six conversions of the try block, in order: ValueError at the first
\* text its conversion rejects.
OverallParses(r) ==
    /\ FloatOk(r, "line-rate") /\ FloatOk(r, "branch-rate")
    /\ IntOk(r, "lines-covered") /\ IntOk(r, "lines-valid")
    /\ IntOk(r, "branches-covered") /\ IntOk(r, "branches-valid")

\* The exceptions `except (ValueError, TypeError)` takes.
OverallCaught == {"ValueError", "TypeError"}

\* A variant that converts each attribute under a handler of its own.
extract_overall_per_field(r) ==
    LET f(k) == IF FloatOk(r, k) THEN FloatOf(r, k) ELSE 0
        i(k) == IF IntOk(r, k) THEN IntOf(r, k) ELSE 0
    IN  Returned([lines_valid |-> i("lines-valid"),
                  lines_covered |-> i("lines-covered"),
                  line_rate |-> f("line-rate"),
                  branches_valid |-> i("branches-valid"),
                  branches_covered |-> i("branches-covered"),
                  branch_rate |-> f("branch-rate"),
                  percent_covered |-> float_times(f("line-rate"), 100)])

\* A variant that stores each value as soon as it is converted, so that the
\* attributes converted before the failing one keep their values.
extract_overall_partial_update(r) ==
    LET lr == FloatOk(r, "line-rate")
        br == lr /\ FloatOk(r, "branch-rate")
        lc == br /\ IntOk(r, "lines-covered")
        lv == lc /\ IntOk(r, "lines-valid")
        bc == lv /\ IntOk(r, "branches-covered")
        bv == bc /\ IntOk(r, "branches-valid")
    IN  Returned([lines_valid |-> IF lv THEN IntOf(r, "lines-valid") ELSE 0,
                  lines_covered |-> IF lc THEN IntOf(r, "lines-covered") ELSE 0,
                  line_rate |-> IF lr THEN FloatOf(r, "line-rate") ELSE 0,
                  branches_valid |-> IF bv THEN IntOf(r, "branches-valid") ELSE 0,
                  branches_covered |-> IF bc THEN IntOf(r, "branches-covered") ELSE 0,
                  branch_rate |-> IF br THEN FloatOf(r, "branch-rate") ELSE 0,
                  percent_covered |-> IF bv THEN float_times(FloatOf(r, "line-rate"), 100)
                                      ELSE 0])

extract_overall_coverage(r) ==
    IF OverallParses(r)
    THEN Returned([lines_valid |-> IntOf(r, "lines-valid"),
                   lines_covered |-> IntOf(r, "lines-covered"),
                   line_rate |-> FloatOf(r, "line-rate"),
                   branches_valid |-> IntOf(r, "branches-valid"),
                   branches_covered |-> IntOf(r, "branches-covered"),
                   branch_rate |-> FloatOf(r, "branch-rate"),
                   percent_covered |-> float_times(FloatOf(r, "line-rate"), 100)])
    ELSE IF "ValueError" \in OverallCaught
         THEN Returned(ZeroTotals)
         ELSE Raised("ValueError")

\* The <coverage> roots the function is called on: each attribute absent,
\* a number, or a text that is no number ("0.5" is a number int() rejects).
RootElems ==
    {a @@ b @@ c @@ d @@ e @@ f :
        a \in Opt("line-rate", {"0.75", "not-a-number"}),
        b \in Opt("branch-rate", {"0.5", "bad"}),
        c \in Opt("lines-covered", {"3", "bad"}),
        d \in Opt("lines-valid", {"10", "bad"}),
        e \in Opt("branches-covered", {"1", "0.5", "bad"}),
        f \in Opt("branches-valid", {"2", "bad"})}

ExtractOverallCoverage ==
    /\ ov_pc = "call"
    /\ totals' = extract_overall_coverage(root)
    /\ ov_pc' = "returned"
    /\ UNCHANGED <<root, cobVars, selVars, pxVars, anVars>>

InitOverall ==
    /\ root \in RootElems
    /\ totals = <<>>
    /\ ov_pc = "call"
    /\ IdleCob /\ IdleSel /\ IdlePx /\ IdleAn

NextOverall == ExtractOverallCoverage

SpecOverall == InitOverall /\ [][NextOverall]_vars

(***************************************************************************)
(* Claims on the overall totals.                                           *)
(***************************************************************************)
\* Some numeric attribute of the root carries a text that is no number.
NotANumber(r) ==
    \E k \in DOMAIN r : r[k] \notin (DOMAIN FloatLit \cup DOMAIN IntLit)

\* C9: a <coverage> root whose line-rate, or any other numeric attribute, is
\* not a number yields totals whose seven fields are all zero, and no
\* exception leaves the call.
C9_BadRootAttributeAllZeros ==
    (ov_pc = "returned" /\ NotANumber(root)) =>
        /\ totals.exc = "none"
        /\ \A k \in {"lines_valid", "lines_covered", "line_rate", "branches_valid",
                     "branches_covered", "branch_rate", "percent_covered"} :
              totals.val[k] = 0

\* line-rate is "not-a-number" while the other five attributes are numbers,
\* and the call has returned.
C9_Witness ==
    /\ ov_pc = "returned"
    /\ DOMAIN root = {"line-rate", "branch-rate", "lines-covered", "lines-valid",
                      "branches-covered", "branches-valid"}
    /\ root["line-rate"] = "not-a-number"
    /\ \A k \in DOMAIN root \ {"line-rate"} :
          root[k] \in (DOMAIN FloatLit \cup DOMAIN IntLit)
    /\ totals.exc = "none" /\ totals.val.lines_valid = 0

(***************************************************************************)
(* Report files and the XML parsers.                                       *)
(*                                                                         *)
(* A report file is [path, exists, readable, content, disk]: content is    *)
(* what the bytes are (an XML document, a JSON value, other text) and disk *)
(* the source paths os.path.exists finds. An XML document that is          *)
(* well-formed carries its root tag, the attributes of the root, the       *)
(* <package> elements under <packages> (each with its <class> elements,    *)
(* their <line> and <method> elements), the <package> elements directly    *)
(* under the root (each with                                               *)
(* its <sourcefile> elements), and whether it declares and uses an         *)
(* internal or an external entity.                                         *)
(***************************************************************************)
Front(q) == SubSeq(q, 1, Len(q) - 1)
Last(q) == q[Len(q)]

IsXml(content) == content.kind = "xml" /\ content.wellformed

\* defusedxml.ElementTree.parse: entity declarations are forbidden
\* (EntitiesForbidden); a file that cannot be read raises OSError.
safe_parse(file) ==
    IF ~file.readable THEN Raised("PermissionError")
    ELSE IF ~IsXml(file.content) THEN Raised("ParseError")
    ELSE IF file.content.entities # "none" THEN Raised("EntitiesForbidden")
    ELSE Returned(file.content)

\* xml.etree.ElementTree.parse: an internal entity is expanded, an external
\* entity is not fetched and its use is a ParseError.
et_parse(file) ==
    IF ~file.exists THEN Raised("FileNotFoundError")
    ELSE IF ~file.readable THEN Raised("PermissionError")
    ELSE IF ~IsXml(file.content) THEN Raised("ParseError")
    ELSE IF file.content.entities = "external" THEN Raised("ParseError")
    ELSE Returned(file.content)

\* Whether et_parse expands an entity of the file.
et_expands(file) ==
    /\ file.exists /\ file.readable /\ IsXml(file.content)
    /\ file.content.entities = "internal"

\* _extract_lines_data: the line loop over all <line> elements of a class.
RECURSIVE extract_lines_data(_)
extract_lines_data(lines) ==
    IF lines = <<>> THEN EmptyLinesData
    ELSE line_body(extract_lines_data(Front(lines)), Last(lines))

\* _extract_files_coverage: the class loop over all <class> elements.
RECURSIVE extract_files_coverage(_)
extract_files_coverage(classes) ==
    IF classes = <<>> THEN <<>>
    ELSE LET fs == extract_files_coverage(Front(classes))
             c == Last(classes)
         IN  IF ~HasFilename(c.attrs) \/ ~ClassParses(c.attrs) THEN fs
             ELSE (c.attrs["filename"] :>
                      file_entry(c.attrs, extract_lines_data(c.lines))) @@ fs

\* The <class> elements under packages/package/classes, in document order.
RECURSIVE all_classes(_)
all_classes(packages_elem) ==
    IF packages_elem = <<>> THEN <<>>
    ELSE all_classes(Front(packages_elem)) \o Last(packages_elem).classes

\* The entry of a <method>, of a <class> and of a <package>: the rates and
\* percent_covered = line_rate * 100.
rates_entry_percent_is_rate(e) ==
    [line_rate |-> FloatOf(e, "line-rate"),
     branch_rate |-> FloatOf(e, "branch-rate"),
     percent_covered |-> FloatOf(e, "line-rate")]

rates_entry(e) ==
    [line_rate |-> FloatOf(e, "line-rate"),
     branch_rate |-> FloatOf(e, "branch-rate"),
     percent_covered |-> float_times(FloatOf(e, "line-rate"), 100)]

\* _extract_methods_from_class: a method with a bad rate is skipped.
RECURSIVE extract_methods_from_class(_)
extract_methods_from_class(methods) ==
    IF methods = <<>> THEN <<>>
    ELSE IF ~ClassParses(Last(methods))
    THEN extract_methods_from_class(Front(methods))
    ELSE (Get(Last(methods), "name", "") :>
             ([signature |-> Get(Last(methods), "signature", "")]
                  @@ rates_entry(Last(methods))))
         @@ extract_methods_from_class(Front(methods))

\* _extract_classes_from_package: a class with a bad rate is skipped.
RECURSIVE extract_classes_from_package(_)
extract_classes_from_package(classes) ==
    IF classes = <<>> THEN <<>>
    ELSE IF ~ClassParses(Last(classes).attrs)
    THEN extract_classes_from_package(Front(classes))
    ELSE (Get(Last(classes).attrs, "name", "") :>
             ([filename |-> Get(Last(classes).attrs, "filename", ""),
               methods |-> extract_methods_from_class(Last(classes).methods)]
                  @@ rates_entry(Last(classes).attrs)))
         @@ extract_classes_from_package(Front(classes))

\* _extract_packages_coverage: a package with a bad rate is skipped.
RECURSIVE extract_packages_coverage(_)
extract_packages_coverage(packages_elem) ==
    IF packages_elem = <<>> THEN <<>>
    ELSE IF ~ClassParses(Last(packages_elem).attrs)
    THEN extract_packages_coverage(Front(packages_elem))
    ELSE (Get(Last(packages_elem).attrs, "name", "") :>
             ([classes |-> extract_classes_from_package(Last(packages_elem).classes)]
                  @@ rates_entry(Last(packages_elem).attrs)))
         @@ extract_packages_coverage(Front(packages_elem))

\* The exception kinds of the model; every one is an Exception.
Exceptions ==
    {"ParseError", "EntitiesForbidden", "PermissionError", "FileNotFoundError",
     "ValueError", "TypeError", "AttributeError", "JSONDecodeError"}

\* What the handlers of parse_coverage_file take: `except ET.ParseError`
\* and `except Exception`.
CoberturaCaughtParseErrorOnly == {"ParseError"}

CoberturaCaught == {"ParseError"} \cup Exceptions

\* The try block of parse_coverage_file.
parse_coverage_file_body(file) ==
    IF ~file.exists THEN Returned(<<>>)
    ELSE LET tree == safe_parse(file) IN
         IF tree.exc # "none" THEN tree
         ELSE IF tree.val.root_tag # "coverage" THEN Returned(<<>>)
         ELSE LET overall == extract_overall_coverage(tree.val.root) IN
              IF overall.exc # "none" THEN overall
              ELSE Returned([format |-> "cobertura",
                             totals |-> overall.val,
                             packages |->
                                 extract_packages_coverage(tree.val.packages_elem),
                             files |->
                                 extract_files_coverage(
                                     all_classes(tree.val.packages_elem))])

\* CoberturaParser.parse_coverage_file
parse_coverage_file(file) ==
    LET r == parse_coverage_file_body(file) IN
    IF r.exc \in CoberturaCaught THEN Returned(<<>>) ELSE r

\* CoberturaParser.convert_to_standard_format
convert_to_standard_format(cobertura_data) ==
    IF cobertura_data = <<>> \/ Get(cobertura_data, "format", "") # "cobertura"
    THEN <<>>
    ELSE [overall_coverage |-> cobertura_data.totals.percent_covered,
          file_coverage |-> cobertura_data.files,
          low_coverage_areas |-> <<>>,
          meets_threshold |-> FALSE,
          source_format |-> "cobertura"]

(***************************************************************************)
(* CoverageAnalyzer._parse_jacoco_coverage                                 *)
(***************************************************************************)
\* raw_pkg.replace('.', '/').strip('/'), on the package names of the model.
pkg_path_of(raw_pkg) ==
    CASE raw_pkg = "com.example" -> "com/example"
      [] raw_pkg = "com/example" -> "com/example"
      [] OTHER -> raw_pkg

\* int(elem.get(k)) with no default: None raises TypeError.
int_required(elem, k) ==
    IF k \notin DOMAIN elem THEN Raised("TypeError")
    ELSE IF elem[k] \notin DOMAIN IntLit THEN Raised("ValueError")
    ELSE Returned(IntLit[elem[k]])

\* covered / total * 100, in hundredths.
percent(covered, total) == IF total > 0 THEN (covered * 10000) \div total ELSE 0

\* The loop over the <line> elements of a sourcefile.
RECURSIVE jacoco_lines(_)
jacoco_lines(lines) ==
    IF lines = <<>>
    THEN [exc |-> "none", missing_lines |-> <<>>, covered_lines |-> <<>>]
    ELSE LET r == jacoco_lines(Front(lines))
             line == Last(lines)
             line_num == int_required(line, "nr")
         IN  IF r.exc # "none" THEN r
             ELSE IF line_num.exc # "none" THEN [r EXCEPT !.exc = line_num.exc]
             ELSE IF ~IntOk(line, "ci") THEN [r EXCEPT !.exc = "ValueError"]
             ELSE IF IntOf(line, "ci") > 0
             THEN [r EXCEPT !.covered_lines = Append(@, line_num.val)]
             ELSE [r EXCEPT !.missing_lines = Append(@, line_num.val)]

\* The fallback loop over the <counter> elements of a sourcefile.
RECURSIVE jacoco_counters(_)
jacoco_counters(counters) ==
    IF counters = <<>> THEN [exc |-> "none", missed |-> 0, covered |-> 0]
    ELSE LET r == jacoco_counters(Front(counters))
             counter == Last(counters)
             missed == int_required(counter, "missed")
             covered == int_required(counter, "covered")
         IN  IF r.exc # "none" \/ Get(counter, "type", "") # "LINE" THEN r
             ELSE IF missed.exc # "none" THEN [r EXCEPT !.exc = missed.exc]
             ELSE IF covered.exc # "none" THEN [r EXCEPT !.exc = covered.exc]
             ELSE [r EXCEPT !.missed = @ + missed.val, !.covered = @ + covered.val]

\* The candidate relative paths, most specific first.
jacoco_candidates_maven_first(pkg_path, filename) ==
    (IF pkg_path # ""
     THEN <<"src/main/java/" \o pkg_path \o "/" \o filename,
            pkg_path \o "/" \o filename,
            "src/" \o pkg_path \o "/" \o filename>>
     ELSE <<>>)
    \o <<"src/main/java/" \o filename, "src/" \o filename, filename>>

jacoco_candidates(pkg_path, filename) ==
    (IF pkg_path # ""
     THEN <<pkg_path \o "/" \o filename,
            "src/main/java/" \o pkg_path \o "/" \o filename,
            "src/" \o pkg_path \o "/" \o filename>>
     ELSE <<>>)
    \o <<"src/main/java/" \o filename, "src/" \o filename, filename>>

\* The first candidate on disk, else the first candidate.
jacoco_chosen_most_specific(candidates, disk) == candidates[1]

jacoco_chosen(candidates, disk) ==
    IF \E i \in 1..Len(candidates) : candidates[i] \in disk
    THEN candidates[CHOOSE i \in 1..Len(candidates) :
                        /\ candidates[i] \in disk
                        /\ \A j \in 1..(i - 1) : candidates[j] \notin disk]
    ELSE candidates[1]

\* The file_coverage entry and the running totals after one sourcefile
\* whose counts are missed and covered.
jacoco_entry(acc, chosen, missed, covered, ls) ==
    [exc |-> "none",
     total_missed |-> acc.total_missed + missed,
     total_covered |-> acc.total_covered + covered,
     file_coverage |->
         (chosen :> [missed |-> missed, covered |-> covered,
                     total |-> missed + covered,
                     percent_covered |-> percent(covered, missed + covered),
                     missing_lines |-> ls.missing_lines,
                     covered_lines |-> ls.covered_lines])
         @@ acc.file_coverage]

\* The counts of a sourcefile: from its lines ls, or from its LINE
\* counters cs when it has no line.
jacoco_counts_prefer_counters(acc, chosen, ls, cs) ==
    IF ls.exc # "none" THEN [acc EXCEPT !.exc = ls.exc]
    ELSE IF cs.exc # "none" THEN [acc EXCEPT !.exc = cs.exc]
    ELSE IF cs.missed + cs.covered > 0
    THEN jacoco_entry(acc, chosen, cs.missed, cs.covered, ls)
    ELSE jacoco_entry(acc, chosen, Len(ls.missing_lines), Len(ls.covered_lines), ls)

jacoco_counts(acc, chosen, ls, cs) ==
    IF ls.exc # "none" THEN [acc EXCEPT !.exc = ls.exc]
    ELSE IF Len(ls.missing_lines) = 0 /\ Len(ls.covered_lines) = 0
    THEN IF cs.exc # "none" THEN [acc EXCEPT !.exc = cs.exc]
         ELSE jacoco_entry(acc, chosen, cs.missed, cs.covered, ls)
    ELSE jacoco_entry(acc, chosen, Len(ls.missing_lines), Len(ls.covered_lines), ls)

\* One pass of the sourcefile loop on the running state acc.
jacoco_sourcefile(acc, pkg_path, sourcefile, disk) ==
    jacoco_counts(acc,
                  jacoco_chosen(jacoco_candidates(pkg_path, sourcefile.name), disk),
                  jacoco_lines(sourcefile.lines),
                  jacoco_counters(sourcefile.counters))

RECURSIVE jacoco_sourcefiles(_, _, _, _)
jacoco_sourcefiles(acc, pkg_path, sourcefiles, disk) ==
    IF sourcefiles = <<>> THEN acc
    ELSE LET r == jacoco_sourcefiles(acc, pkg_path, Front(sourcefiles), disk) IN
         IF r.exc # "none" THEN r
         ELSE jacoco_sourcefile(r, pkg_path, Last(sourcefiles), disk)

\* file_coverage = {}, total_missed = 0, total_covered = 0: locals of the
\* call, set anew by every parse.
jacoco_start_from_last_parse ==
    IF outcome # <<>> /\ outcome.val # <<>> /\ "metadata" \in DOMAIN outcome.val
       /\ outcome.val.metadata # <<>>
    THEN [exc |-> "none", total_missed |-> outcome.val.metadata.total_missed,
          total_covered |-> outcome.val.metadata.total_covered,
          file_coverage |-> outcome.val.file_coverage]
    ELSE [exc |-> "none", total_missed |-> 0, total_covered |-> 0,
          file_coverage |-> <<>>]

jacoco_start ==
    [exc |-> "none", total_missed |-> 0, total_covered |-> 0, file_coverage |-> <<>>]

RECURSIVE jacoco_packages(_, _)
jacoco_packages(packages, disk) ==
    IF packages = <<>>
    THEN jacoco_start
    ELSE LET r == jacoco_packages(Front(packages), disk)
             package == Last(packages)
         IN  IF r.exc # "none" THEN r
             ELSE jacoco_sourcefiles(r, pkg_path_of(Get(package.attrs, "name", "")),
                                     package.sourcefiles, disk)

\* The result of the `except Exception` handler.
jacoco_error(e) ==
    [error |-> e, overall_coverage |-> 0, file_coverage |-> <<>>,
     source_format |-> "jacoco", metadata |-> <<>>]

\* The report built from the state r the package loop ended in.
jacoco_report(r) ==
    IF r.exc # "none" THEN jacoco_error(r.exc)
    ELSE [overall_coverage |->
              percent(r.total_covered, r.total_missed + r.total_covered),
          file_coverage |-> r.file_coverage,
          source_format |-> "jacoco",
          metadata |-> [total_missed |-> r.total_missed,
                        total_covered |-> r.total_covered]]

\* CoverageAnalyzer._parse_jacoco_coverage (and _parse_jacoco_xml, which
\* only logs and calls it).
parse_jacoco_coverage(file) ==
    IF et_parse(file).exc # "none" THEN Returned(jacoco_error(et_parse(file).exc))
    ELSE Returned(jacoco_report(jacoco_packages(file.content.packages, file.disk)))

(***************************************************************************)
(* CoverageAnalyzer._parse_json_coverage and _convert_istanbul_format      *)
(*                                                                         *)
(* A JSON value the code tests the type of is [jtype, members]: jtype is   *)
(* "object" (members: key -> value), "array" or "number".                  *)
(***************************************************************************)
JObject(members) == [jtype |-> "object", members |-> members]
JArray == [jtype |-> "array", members |-> <<>>]
JNumber == [jtype |-> "number", members |-> <<>>]

\* key.endswith('.js') or key.endswith('.ts'), on the keys of the model.
ends_js_ts(key) == key \in {"a.js", "b.ts"}

RECURSIVE sum_over(_, _)
sum_over(f, S) ==
    IF S = {} THEN 0
    ELSE LET x == CHOOSE x \in S : TRUE IN f[x] + sum_over(f, S \ {x})

\* The statement loop of one file: the start lines of the statements that
\* are in both s and statementMap, by hit count.
RECURSIVE istanbul_statements_any_line(_, _)
istanbul_statements_any_line(statements, statement_map) ==
    IF statements = <<>> THEN [missing_lines |-> <<>>, covered_lines |-> <<>>]
    ELSE LET r == istanbul_statements_any_line(Front(statements), statement_map)
             stmt == Last(statements)
             line_num == Get(Get(Get(statement_map, stmt.id, <<>>), "start", <<>>),
                             "line", 0)
         IN  IF stmt.id \notin DOMAIN statement_map THEN r
             ELSE IF stmt.hit_count > 0
             THEN [r EXCEPT !.covered_lines = Append(@, line_num)]
             ELSE [r EXCEPT !.missing_lines = Append(@, line_num)]

RECURSIVE istanbul_statements(_, _)
istanbul_statements(statements, statement_map) ==
    IF statements = <<>> THEN [missing_lines |-> <<>>, covered_lines |-> <<>>]
    ELSE LET r == istanbul_statements(Front(statements), statement_map)
             stmt == Last(statements)
             line_num == Get(Get(Get(statement_map, stmt.id, <<>>), "start", <<>>),
                             "line", 0)
         IN  IF stmt.id \notin DOMAIN statement_map \/ line_num = 0 THEN r
             ELSE IF stmt.hit_count > 0
             THEN [r EXCEPT !.covered_lines = Append(@, line_num)]
             ELSE [r EXCEPT !.missing_lines = Append(@, line_num)]

istanbul_file(file_data) ==
    IF file_data.jtype # "object"
    THEN [missing_lines |-> <<>>, covered_lines |-> <<>>]
    ELSE istanbul_statements(Get(file_data.members, "s", <<>>),
                             Get(file_data.members, "statementMap", <<>>))

\* The report built from the lines found per file.
istanbul_report(per_file) ==
    LET n_covered == [k \in DOMAIN per_file |-> Len(per_file[k].covered_lines)]
        n_lines == [k \in DOMAIN per_file |->
                        Len(per_file[k].covered_lines) + Len(per_file[k].missing_lines)]
    IN  [overall_coverage |->
             percent(sum_over(n_covered, DOMAIN per_file),
                     sum_over(n_lines, DOMAIN per_file)),
         file_coverage |->
             [k \in {f \in DOMAIN per_file : n_lines[f] > 0} |->
                 [summary |-> [percent_covered |-> percent(n_covered[k], n_lines[k])],
                  missing_lines |-> per_file[k].missing_lines,
                  covered_lines |-> per_file[k].covered_lines]],
         source_format |-> "istanbul"]

\* CoverageAnalyzer._convert_istanbul_format
convert_istanbul_format(istanbul_data) ==
    istanbul_report([k \in DOMAIN istanbul_data |-> istanbul_file(istanbul_data[k])])

\* The Python value of a JSON value whose type the code does not test: a
\* dict for an object.
py_value(v) == IF v.jtype = "object" THEN v.members ELSE v

\* 'totals' in data and 'files' in data, true of no array or number here.
is_aggregate(data) ==
    data.jtype = "object" /\ {"totals", "files"} \subseteq DOMAIN data.members

\* isinstance(data, dict) and any(key.endswith('.js') or key.endswith('.ts'))
is_istanbul_all_keys(data) ==
    /\ data.jtype = "object" /\ data.members # <<>>
    /\ \A key \in DOMAIN data.members : ends_js_ts(key)

is_istanbul(data) ==
    data.jtype = "object" /\ \E key \in DOMAIN data.members : ends_js_ts(key)

\* The try block of _parse_json_coverage.
parse_json_coverage_body(file) ==
    IF ~file.exists THEN Raised("FileNotFoundError")
    ELSE IF ~file.readable THEN Raised("PermissionError")
    ELSE IF file.content.kind # "json" THEN Raised("JSONDecodeError")
    ELSE LET data == file.content.data IN
         IF data.jtype = "number" THEN Raised("TypeError")
         ELSE IF is_aggregate(data)
         THEN IF data.members["totals"].jtype # "object" THEN Raised("AttributeError")
              ELSE Returned(
                     [overall_coverage |->
                          Get(data.members["totals"].members, "percent_covered", 0),
                      file_coverage |-> py_value(data.members["files"]),
                      source_format |-> "pytest-json"])
         ELSE IF is_istanbul(data)
         THEN Returned(convert_istanbul_format(data.members))
         ELSE Returned(<<>>)

\* CoverageAnalyzer._parse_json_coverage: `except Exception` returns {}.
parse_json_coverage(file) ==
    LET r == parse_json_coverage_body(file) IN
    IF r.exc \in Exceptions THEN Returned(<<>>) ELSE r

\* CoverageAnalyzer._parse_lcov_coverage: not implemented, returns {}.
parse_lcov_coverage(file) == Returned(<<>>)

(***************************************************************************)
(* CoverageAnalyzer._parse_existing_coverage                               *)
(***************************************************************************)
\* Path(p).suffix.lower(), on the paths of the model.
suffix_lower(path) ==
    CASE path \in {"coverage.xml", "cobertura.xml", "target/site/jacoco/jacoco.xml",
                   "COVERAGE.XML"} -> ".xml"
      [] path = "coverage.json" -> ".json"
      [] path = "coverage/lcov.info" -> ".info"
      [] OTHER -> ".txt"

\* 'jacoco' in str(file_path).lower() or 'cobertura.xml' in str(file_path)
has_jacoco_marker(path) == path \in {"cobertura.xml", "target/site/jacoco/jacoco.xml"}

\* file_path.name.endswith('lcov.info')
name_ends_lcov(path) == path = "coverage/lcov.info"

\* `if jacoco_result and jacoco_result.get('file_coverage')`
has_file_coverage(result) == result # <<>> /\ Get(result, "file_coverage", <<>>) # <<>>

\* The '.xml' branch, given what the two parsers make of the file: JaCoCo
\* first on a path with the marker, then Cobertura, then JaCoCo again.
existing_xml_cobertura_first(first, jacoco, cobertura_data) ==
    IF cobertura_data.exc # "none"
    THEN [out |-> cobertura_data, attempts |-> <<"cobertura">>]
    ELSE IF cobertura_data.val # <<>>
    THEN [out |-> Returned(convert_to_standard_format(cobertura_data.val)),
          attempts |-> <<"cobertura">>]
    ELSE [out |-> jacoco, attempts |-> <<"cobertura", "jacoco">>]

existing_xml(first, jacoco, cobertura_data) ==
    IF first /\ has_file_coverage(jacoco.val)
    THEN [out |-> jacoco, attempts |-> <<"jacoco">>]
    ELSE IF cobertura_data.exc # "none"
    THEN [out |-> cobertura_data,
          attempts |-> (IF first THEN <<"jacoco">> ELSE <<>>) \o <<"cobertura">>]
    ELSE IF cobertura_data.val # <<>>
    THEN [out |-> Returned(convert_to_standard_format(cobertura_data.val)),
          attempts |-> (IF first THEN <<"jacoco">> ELSE <<>>) \o <<"cobertura">>]
    ELSE [out |-> jacoco,
          attempts |-> (IF first THEN <<"jacoco">> ELSE <<>>)
                           \o <<"cobertura", "jacoco">>]

\* The try block of _parse_existing_coverage: what it returns or raises,
\* and the parsers it ran.
parse_existing_coverage_body(file) ==
    IF suffix_lower(file.path) = ".xml"
    THEN existing_xml(has_jacoco_marker(file.path), parse_jacoco_coverage(file),
                      parse_coverage_file(file))
    ELSE IF suffix_lower(file.path) = ".json"
    THEN [out |-> parse_json_coverage(file), attempts |-> <<"json">>]
    ELSE IF name_ends_lcov(file.path)
    THEN [out |-> parse_lcov_coverage(file), attempts |-> <<"lcov">>]
    ELSE [out |-> Returned(<<>>), attempts |-> <<>>]

\* CoverageAnalyzer._parse_existing_coverage: `except Exception` returns {}.
existing_caught(r) ==
    IF r.out.exc \in Exceptions THEN [r EXCEPT !.out = Returned(<<>>)] ELSE r

parse_existing_coverage(file) == existing_caught(parse_existing_coverage_body(file))

\* The report files of the model.
Paths ==
    {"coverage.xml", "cobertura.xml", "target/site/jacoco/jacoco.xml", "COVERAGE.XML",
     "coverage.json", "coverage/lcov.info", "report.txt"}

GoodRoot == ("line-rate" :> "0.5") @@ ("branch-rate" :> "0.3")

\* The <packages> element of a document: none, or one <package> with one
\* <class> that has one <line> and one <method>.
XmlPackagesElem ==
    {<<>>,
     <<[attrs |-> ("name" :> "pkg") @@ ("line-rate" :> "0.5")
                      @@ ("branch-rate" :> "0.3"),
        classes |->
            <<[attrs |-> ("name" :> "A") @@ ("filename" :> "a.py")
                             @@ ("line-rate" :> "0.5") @@ ("branch-rate" :> "0.3"),
               lines |-> <<("number" :> "1") @@ ("hits" :> "0")>>,
               methods |-> <<("name" :> "run") @@ ("signature" :> "()")
                                 @@ ("line-rate" :> "1.0")
                                 @@ ("branch-rate" :> "1.0")>>]>>]>>}

XmlPackages ==
    {<<>>,
     <<[attrs |-> ("name" :> "com/example"),
        sourcefiles |-> <<[name |-> "Foo.java",
                           lines |-> <<("nr" :> "1") @@ ("ci" :> "0"),
                                       ("nr" :> "2") @@ ("ci" :> "3")>>,
                           counters |-> <<>>]>>]>>,
     <<[attrs |-> ("name" :> "com/example"),
        sourcefiles |-> <<[name |-> "Foo.java",
                           lines |-> <<("nr" :> "notint") @@ ("ci" :> "0")>>,
                           counters |-> <<>>]>>]>>,
     <<[attrs |-> ("name" :> "com.example"),
        sourcefiles |-> <<[name |-> "Foo.java",
                           lines |-> <<>>,
                           counters |-> <<("type" :> "BRANCH") @@ ("missed" :> "2")
                                              @@ ("covered" :> "2"),
                                          ("type" :> "LINE") @@ ("missed" :> "1")
                                              @@ ("covered" :> "3")>>]>>]>>}

XmlDocs ==
    {[kind |-> "xml", wellformed |-> FALSE]} \cup
    {[kind |-> "xml", wellformed |-> TRUE, entities |-> e, root_tag |-> t,
      root |-> GoodRoot, packages_elem |-> cs, packages |-> ps] :
        e \in {"none", "internal", "external"},
        t \in {"coverage", "report", "notcoverage"},
        cs \in XmlPackagesElem, ps \in XmlPackages}

IstanbulFile ==
    JObject([s |-> <<[id |-> "0", hit_count |-> 1], [id |-> "1", hit_count |-> 0]>>,
             statementMap |-> [i \in {"0", "1"} |->
                 ("start" :> ("line" :> (IF i = "0" THEN 3 ELSE 4)))]])

JsonValues ==
    {JNumber, JArray,
     JObject(("foo" :> JNumber)),
     JObject(("a.js" :> JNumber)),
     JObject(("a.js" :> IstanbulFile)),
     JObject([totals |-> JNumber, files |-> JObject(<<>>)]),
     JObject([totals |-> JObject(("percent_covered" :> Pct(75))),
              files |-> JObject(<<>>)]),
     JObject([totals |-> JObject(("percent_covered" :> Pct(75))),
              files |-> JObject(("src/x.py" :>
                                    [summary |-> ("percent_covered" :> Pct(75)),
                                     missing_lines |-> <<5>>]))])}

Contents ==
    XmlDocs \cup {[kind |-> "json", data |-> d] : d \in JsonValues}
            \cup {[kind |-> "text"]}

Disks == {{}, {"src/main/java/com/example/Foo.java"}}

ReportFiles ==
    {[path |-> p, exists |-> FALSE, readable |-> FALSE, content |-> [kind |-> "none"],
      disk |-> d] : p \in Paths, d \in Disks}
    \cup
    {[path |-> p, exists |-> TRUE, readable |-> r, content |-> c, disk |-> d] :
        p \in Paths, r \in BOOLEAN, c \in Contents, d \in Disks}

\* A caller hands the report to CoberturaParser.parse_coverage_file.
ParseCoverageFile ==
    /\ px_pc = "idle"
    /\ outcome' = parse_coverage_file(report_file)
    /\ px_pc' = "cobertura_returned"
    /\ UNCHANGED <<report_file, expanded, attempts, cobVars, selVars, ovVars, anVars>>

\* A caller hands the report to CoverageAnalyzer._parse_existing_coverage.
ParseExistingCoverage ==
    /\ px_pc = "idle"
    /\ \E r \in {parse_existing_coverage(report_file)} :
          /\ outcome' = r.out
          /\ attempts' = r.attempts
          /\ expanded' = (et_expands(report_file) /\ "jacoco" \in Range(r.attempts))
    /\ px_pc' = "existing_returned"
    /\ UNCHANGED <<report_file, cobVars, selVars, ovVars, anVars>>

InitParse ==
    /\ report_file \in ReportFiles
    /\ outcome = <<>> /\ expanded = FALSE /\ attempts = <<>> /\ px_pc = "idle"
    /\ IdleCob /\ IdleSel /\ IdleOv /\ IdleAn

NextParse == ParseCoverageFile \/ ParseExistingCoverage

SpecParse == InitParse /\ [][NextParse]_vars

(***************************************************************************)
(* Claims about the format parsers                                         *)
(***************************************************************************)
XmlSuffix(f) == suffix_lower(f.path) = ".xml"
JsonSuffix(f) == suffix_lower(f.path) = ".json"
Opens(f) == f.exists /\ f.readable

\* The JSON shapes _parse_json_coverage recognises.
RecognizedJson(data) ==
    /\ data.jtype = "object"
    /\ \/ {"totals", "files"} \subseteq DOMAIN data.members
       \/ \E key \in DOMAIN data.members : ends_js_ts(key)

\* A JSON report whose parse raises: not JSON at all, a top-level number,
\* or totals that is not an object.
JsonRaises(f) ==
    \/ f.content.kind # "json"
    \/ f.content.data.jtype = "number"
    \/ /\ f.content.data.jtype = "object"
       /\ {"totals", "files"} \subseteq DOMAIN f.content.data.members
       /\ f.content.data.members["totals"].jtype # "object"

\* The cases of C7 as parse_coverage_file meets them: a missing file,
\* malformed XML, a root tag other than coverage, an exception inside.
CoberturaListed(f) ==
    \/ ~f.exists
    \/ ~f.readable
    \/ ~IsXml(f.content)
    \/ f.content.root_tag # "coverage"
    \/ f.content.entities # "none"

\* The cases of C7 as _parse_existing_coverage meets them.
ExistingListed(f) ==
    \/ ~f.exists
    \/ ~f.readable
    \/ XmlSuffix(f) /\ ~IsXml(f.content)
    \/ XmlSuffix(f) /\ IsXml(f.content) /\ f.content.root_tag # "coverage"
    \/ XmlSuffix(f) /\ IsXml(f.content) /\ f.content.entities # "none"
    \/ JsonSuffix(f) /\ (JsonRaises(f) \/ ~RecognizedJson(f.content.data))
    \/ name_ends_lcov(f.path)
    \/ ~XmlSuffix(f) /\ ~JsonSuffix(f)

NoFileCoverage(result) == result = <<>> \/ Get(result, "file_coverage", <<>>) = <<>>

\* An XML file xml.etree reads as a JaCoCo report with at least one
\* <sourcefile>, all of whose <line> and LINE <counter> numbers are integers.
JacocoLineOk(line) ==
    /\ "nr" \in DOMAIN line /\ line["nr"] \in DOMAIN IntLit
    /\ "ci" \in DOMAIN line => line["ci"] \in DOMAIN IntLit

JacocoCounterOk(counter) ==
    Get(counter, "type", "") = "LINE" =>
        \A k \in {"missed", "covered"} :
            k \in DOMAIN counter /\ counter[k] \in DOMAIN IntLit

JacocoReads(f) ==
    /\ XmlSuffix(f) /\ Opens(f) /\ IsXml(f.content)
    /\ f.content.entities # "external"
    /\ \E i \in DOMAIN f.content.packages : f.content.packages[i].sourcefiles # <<>>
    /\ \A i \in DOMAIN f.content.packages :
         \A j \in DOMAIN f.content.packages[i].sourcefiles :
            LET sf == f.content.packages[i].sourcefiles[j] IN
            /\ \A l \in DOMAIN sf.lines : JacocoLineOk(sf.lines[l])
            /\ sf.lines = <<>> => \A c \in DOMAIN sf.counters : JacocoCounterOk(sf.counters[c])

\* C7 as stated (refuted): in every listed case parse_coverage_file returns
\* {} and _parse_existing_coverage returns, without raising, a result with
\* no file coverage.
C7_NoFileCoverageInListedCases ==
    /\ (px_pc = "cobertura_returned" /\ CoberturaListed(report_file))
         => (outcome.exc = "none" /\ outcome.val = <<>>)
    /\ (px_pc = "existing_returned" /\ ExistingListed(report_file))
         => (outcome.exc = "none" /\ NoFileCoverage(outcome.val))

\* C7 (amended): no exception escapes either parser; in every listed case
\* parse_coverage_file returns {}; in every listed case
\* _parse_existing_coverage returns a result with no file coverage, unless
\* the file is XML that the JaCoCo parser reads with <sourcefile> elements
\* in it, and then it returns the JaCoCo parser's file coverage.
C7_NoExceptionEscapes ==
    /\ px_pc # "idle" => outcome.exc = "none"
    /\ (px_pc = "cobertura_returned" /\ CoberturaListed(report_file))
         => outcome.val = <<>>
    /\ (px_pc = "existing_returned" /\ ExistingListed(report_file)
            /\ ~JacocoReads(report_file))
         => NoFileCoverage(outcome.val)
    /\ (px_pc = "existing_returned" /\ ExistingListed(report_file)
            /\ JacocoReads(report_file))
         => (~NoFileCoverage(outcome.val) /\ outcome.val.source_format = "jacoco")

\* An XML report whose root is not coverage went through
\* _parse_existing_coverage and came back with JaCoCo file coverage.
C7_Witness ==
    /\ px_pc = "existing_returned"
    /\ XmlSuffix(report_file) /\ Opens(report_file) /\ IsXml(report_file.content)
    /\ report_file.content.root_tag = "report"
    /\ report_file.content.entities = "none"
    /\ attempts = <<"cobertura", "jacoco">>
    /\ outcome.exc = "none" /\ ~NoFileCoverage(outcome.val)

\* C8 as stated (refuted by the code): for an XML report with entity
\* declarations, no parser _parse_existing_coverage runs expands the
\* entities and the result has no file coverage.
C8_EntitiesRejectedOnEveryPath ==
    (/\ px_pc = "existing_returned"
     /\ XmlSuffix(report_file) /\ Opens(report_file) /\ IsXml(report_file.content)
     /\ report_file.content.entities # "none")
        => (~expanded /\ outcome.exc = "none" /\ NoFileCoverage(outcome.val))

(***************************************************************************)
(* parse_coverage_file on Cobertura documents that differ in their rates   *)
(***************************************************************************)
\* The line-rate texts of the documents: a rate, a rate above 1, the text
\* float() reads as NaN, and a text float() rejects.
RateTexts == {"0.5", "1.5", "nan", "oops"}

Rated(name, rate) == name @@ ("line-rate" :> rate) @@ ("branch-rate" :> "0.3")

RateDocs ==
    {[kind |-> "xml", wellformed |-> TRUE, entities |-> "none",
      root_tag |-> "coverage", root |-> rt, packages |-> <<>>,
      packages_elem |->
          <<[attrs |-> Rated(("name" :> "pkg"), pr),
             classes |->
                 <<[attrs |-> Rated(("name" :> "A") @@ ("filename" :> "a.py"), cr),
                    lines |-> <<("number" :> "1") @@ ("hits" :> "0")>>,
                    methods |-> <<Rated(("name" :> "run"), mr)>>]>>]>>] :
        rt \in Opt("line-rate", RateTexts),
        pr \in RateTexts, cr \in RateTexts, mr \in RateTexts}

InitRates ==
    /\ report_file \in {[path |-> "coverage.xml", exists |-> TRUE, readable |-> TRUE,
                         content |-> c, disk |-> {}] : c \in RateDocs}
    /\ outcome = <<>> /\ expanded = FALSE /\ attempts = <<>> /\ px_pc = "idle"
    /\ IdleCob /\ IdleSel /\ IdleOv /\ IdleAn

NextRates == ParseCoverageFile

SpecRates == InitRates /\ [][NextRates]_vars

\* The entries of a parse result that carry line_rate and percent_covered.
PackageEntries(r) == {r.packages[k] : k \in DOMAIN r.packages}
ClassEntries(r) == UNION {{p.classes[k] : k \in DOMAIN p.classes} : p \in PackageEntries(r)}
MethodEntries(r) == UNION {{c.methods[k] : k \in DOMAIN c.methods} : c \in ClassEntries(r)}
FileSummaries(r) == {r.files[k].summary : k \in DOMAIN r.files}

RatePairs(r) ==
    {<<e.line_rate, e.percent_covered>> :
        e \in {r.totals} \cup PackageEntries(r) \cup ClassEntries(r)
                  \cup MethodEntries(r) \cup FileSummaries(r)}

ParsedCobertura == px_pc = "cobertura_returned" /\ outcome.exc = "none" /\ outcome.val # <<>>

\* C11 as stated (refuted): in every result of parse_coverage_file,
\* percent_covered == line_rate * 100 for the totals and for every package,
\* class, method and file summary entry.
C11_PercentEqualsRateTimes100 ==
    ParsedCobertura =>
        \A pair \in RatePairs(outcome.val) :
            float_eq(pair[2], float_times(pair[1], 100))

\* C11 (amended): in every result of parse_coverage_file, every entry
\* whose line_rate is not NaN has percent_covered == line_rate * 100, and
\* an entry whose line_rate is NaN has percent_covered NaN as well.
C11_PercentIsRateTimes100UnlessNaN ==
    ParsedCobertura =>
        \A pair \in RatePairs(outcome.val) :
            IF pair[1] = NaN THEN pair[2] = NaN ELSE pair[2] = pair[1] * 100

\* A document was parsed whose package, class, method and file entries all
\* carry the rate 0.5 and the percentage 50, under a root with rate 1.5.
C11_Witness ==
    /\ ParsedCobertura
    /\ outcome.val.totals.line_rate = 150
    /\ PackageEntries(outcome.val) # {} /\ ClassEntries(outcome.val) # {}
    /\ MethodEntries(outcome.val) # {} /\ FileSummaries(outcome.val) # {}
    /\ \A e \in PackageEntries(outcome.val) \cup ClassEntries(outcome.val)
            \cup MethodEntries(outcome.val) \cup FileSummaries(outcome.val) :
          e.line_rate = 50 /\ e.percent_covered = 5000

(***************************************************************************)
(* _parse_existing_coverage on one JaCoCo report, over the source trees    *)
(* the working directory can hold                                          *)
(***************************************************************************)
FooCandidates ==
    {"com/example/Foo.java", "src/main/java/com/example/Foo.java",
     "src/com/example/Foo.java", "src/main/java/Foo.java", "src/Foo.java", "Foo.java"}

\* A report with one <sourcefile name="Foo.java"> in a package of the
\* given name attribute (none when the text is empty).
FooReport(pkg_name) ==
    [kind |-> "xml", wellformed |-> TRUE, entities |-> "none", root_tag |-> "report",
     root |-> <<>>, packages_elem |-> <<>>,
     packages |->
         <<[attrs |-> IF pkg_name = "" THEN <<>> ELSE ("name" :> pkg_name),
            sourcefiles |-> <<[name |-> "Foo.java",
                               lines |-> <<("nr" :> "1") @@ ("ci" :> "0"),
                                           ("nr" :> "2") @@ ("ci" :> "3")>>,
                               counters |-> <<>>]>>]>>]

InitJacocoPaths ==
    /\ report_file \in
         {[path |-> "target/site/jacoco/jacoco.xml", exists |-> TRUE, readable |-> TRUE,
           content |-> FooReport(n), disk |-> d] :
              n \in {"com/example", "com.example", ""}, d \in SUBSET FooCandidates}
    /\ outcome = <<>> /\ expanded = FALSE /\ attempts = <<>> /\ px_pc = "idle"
    /\ IdleCob /\ IdleSel /\ IdleOv /\ IdleAn

NextJacocoPaths == ParseExistingCoverage

SpecJacocoPaths == InitJacocoPaths /\ [][NextJacocoPaths]_vars

\* The report of package com/example (written with slashes or dots) and
\* sourcefile Foo.java has been parsed.
ParsedFoo ==
    /\ px_pc = "existing_returned" /\ outcome.exc = "none"
    /\ Get(report_file.content.packages[1].attrs, "name", "") \in {"com/example", "com.example"}

\* C12 as stated (refuted): whenever src/main/java/com/example/Foo.java is
\* on disk, it is the key chosen for the sourcefile.
C12_MavenPathWheneverOnDisk ==
    (ParsedFoo /\ "src/main/java/com/example/Foo.java" \in report_file.disk)
        => DOMAIN outcome.val.file_coverage = {"src/main/java/com/example/Foo.java"}

\* C12 (amended): when src/main/java/com/example/Foo.java is on disk, it is
\* the key chosen for the sourcefile if com/example/Foo.java is not on disk
\* too; if it is, com/example/Foo.java is the key.
C12_MavenPathUnlessBareOnDisk ==
    (ParsedFoo /\ "src/main/java/com/example/Foo.java" \in report_file.disk)
        => DOMAIN outcome.val.file_coverage =
              {IF "com/example/Foo.java" \in report_file.disk
               THEN "com/example/Foo.java"
               ELSE "src/main/java/com/example/Foo.java"}

\* The Maven path and less specific candidates are on disk, the bare
\* candidate is not, and the Maven path came out as the key.
C12_Witness ==
    /\ ParsedFoo
    /\ report_file.disk = {"src/main/java/com/example/Foo.java", "src/Foo.java", "Foo.java"}
    /\ DOMAIN outcome.val.file_coverage = {"src/main/java/com/example/Foo.java"}

(***************************************************************************)
(* _parse_existing_coverage on coverage.json, over the shapes of the JSON  *)
(***************************************************************************)
\* A number, an array, and the objects over the keys totals, files, a.js,
\* b.ts and README.
JsonShapes ==
    {JNumber, JArray} \cup
    {JObject(t @@ f @@ a @@ b @@ o) :
        t \in Opt("totals", {JNumber, JObject(("percent_covered" :> Pct(75)))}),
        f \in Opt("files", {JObject(<<>>),
                            JObject(("src/x.py" :>
                                        [summary |-> ("percent_covered" :> Pct(75)),
                                         missing_lines |-> <<5>>]))}),
        a \in Opt("a.js", {JNumber, JObject(<<>>), IstanbulFile}),
        b \in Opt("b.ts", {IstanbulFile}),
        o \in Opt("README", {JNumber})}

InitJson ==
    /\ report_file \in
         {[path |-> "coverage.json", exists |-> TRUE, readable |-> TRUE,
           content |-> [kind |-> "json", data |-> d], disk |-> {}] : d \in JsonShapes}
    /\ outcome = <<>> /\ expanded = FALSE /\ attempts = <<>> /\ px_pc = "idle"
    /\ IdleCob /\ IdleSel /\ IdleOv /\ IdleAn

NextJson == ParseExistingCoverage

SpecJson == InitJson /\ [][NextJson]_vars

ParsedJson ==
    /\ px_pc = "existing_returned"
    /\ JsonSuffix(report_file) /\ Opens(report_file) /\ report_file.content.kind = "json"

AggregateResult == outcome.val # <<>> /\ outcome.val.source_format = "pytest-json"
IstanbulResult == outcome.val # <<>> /\ outcome.val.source_format = "istanbul"

HasTotalsAndFiles(data) ==
    data.jtype = "object" /\ {"totals", "files"} \subseteq DOMAIN data.members

\* Every key ends in .js/.ts and every value has s and statementMap.
InstrumentationShape(data) ==
    /\ data.jtype = "object" /\ data.members # <<>>
    /\ \A key \in DOMAIN data.members :
         /\ ends_js_ts(key)
         /\ data.members[key].jtype = "object"
         /\ {"s", "statementMap"} \subseteq DOMAIN data.members[key].members

coverage_files ==
    << <<"coverage.xml">>, <<"cobertura-coverage.xml">>, <<"cobertura.xml">>,
       <<"target", "site", "cobertura", "coverage.xml">>,
       <<"build", "reports", "cobertura", "coverage.xml">>,
       <<"coverage", "cobertura-coverage.xml">>,
       <<"coverage.json">>, <<".coverage.json">>,
       <<"coverage", "coverage-final.json">>,
       <<"coverage", "lcov.info">>, <<"lcov.info">>,
       <<"target", "site", "jacoco", "jacoco.xml">>,
       <<"build", "reports", "jacoco", "test", "jacocoTestReport.xml">>,
       <<"coverage.cobertura.xml">>, <<"TestResults", "coverage.cobertura.xml">> >>

search_paths == << <<>>, <<"coverage">>, <<"target">>, <<"build">> >>

\* Python's None.
None == "None"

IsPrefix(p, q) == Len(p) <= Len(q) /\ SubSeq(q, 1, Len(p)) = p

\* Path.exists() and Path.is_file()
path_exists(disk, p) == \E q \in disk.files \cup disk.dirs : IsPrefix(p, q)

is_file_or_directory(disk, p) == p \in disk.files \cup disk.dirs

is_file(disk, p) == p \in disk.files

\* The inner loop: the first name of coverage_files, from the j-th on,
\* that is a regular file under search_path.
RECURSIVE first_report_in(_, _, _)
first_report_in(disk, search_path, j) ==
    IF j > Len(coverage_files) THEN None
    ELSE IF /\ path_exists(disk, search_path \o coverage_files[j])
            /\ is_file(disk, search_path \o coverage_files[j])
    THEN search_path \o coverage_files[j]
    ELSE first_report_in(disk, search_path, j + 1)

\* The outer loop, from the i-th search path on.
RECURSIVE first_report_from(_, _)
first_report_from(disk, i) ==
    IF i > Len(search_paths) THEN None
    ELSE IF ~(search_paths[i] = <<>> \/ path_exists(disk, search_paths[i]))
    THEN first_report_from(disk, i + 1)
    ELSE IF first_report_in(disk, search_paths[i], 1) # None
    THEN first_report_in(disk, search_paths[i], 1)
    ELSE first_report_from(disk, i + 1)

find_existing_coverage_reports(disk) == first_report_from(disk, 1)

\* The disks of the model: any of these regular files, and any of these
\* directories (one of them named like a report).
DiskFiles ==
    {<<"coverage.xml">>, <<"lcov.info">>, <<"coverage", "lcov.info">>,
     <<"coverage", "coverage.xml">>, <<"coverage", "coverage", "lcov.info">>,
     <<"target", "site", "jacoco", "jacoco.xml">>, <<"target", "coverage.json">>,
     <<"build", "notes.txt">>}

DiskDirs == {<<"coverage.xml">>, <<"build", "coverage.json">>}

LocatorDisks ==
    {disk \in [files : SUBSET DiskFiles, dirs : SUBSET DiskDirs] :
        disk.files \cap disk.dirs = {}}

FindExistingCoverageReports ==
    /\ an_pc = "locate"
    /\ call_result' = find_existing_coverage_reports(call_args.disk)
    /\ an_pc' = "located"
    /\ UNCHANGED <<call_args, calls, cobVars, selVars, ovVars, pxVars>>

InitLocator ==
    /\ call_args \in {[disk |-> d] : d \in LocatorDisks}
    /\ call_result = <<>> /\ calls = <<>> /\ an_pc = "locate"
    /\ IdleCob /\ IdleSel /\ IdleOv /\ IdlePx

NextLocator == FindExistingCoverageReports

SpecLocator == InitLocator /\ [][NextLocator]_vars

\* The pairs (i, j) such that Pi exists and Pi/Fj is an existing regular file.
LocatorMatches(disk) ==
    {m \in (1..Len(search_paths)) \X (1..Len(coverage_files)) :
        /\ \E q \in disk.files \cup disk.dirs : IsPrefix(search_paths[m[1]], q)
              \/ search_paths[m[1]] = <<>>
        /\ search_paths[m[1]] \o coverage_files[m[2]] \in disk.files}

PairBefore(a, b) == a[1] < b[1] \/ (a[1] = b[1] /\ a[2] <= b[2])

\* C14: the locator returns Pi/Fj for the smallest matching (i, j) in
\* search-path-then-filename order, and None iff no pair matches.
C14_FirstMatchInPathThenNameOrder ==
    an_pc = "located" =>
        LET ms == LocatorMatches(call_args.disk) IN
        IF ms = {} THEN call_result = None
        ELSE \E m \in ms :
                /\ \A o \in ms : PairBefore(m, o)
                /\ call_result = search_paths[m[1]] \o coverage_files[m[2]]

\* coverage.xml is a directory, coverage/coverage.xml and the JaCoCo report
\* under target are files: the JaCoCo report, the twelfth name under the
\* working directory, is returned before the first name under coverage/.
C14_Witness ==
    /\ an_pc = "located"
    /\ call_args.disk.dirs = {<<"coverage.xml">>}
    /\ call_args.disk.files =
          {<<"coverage", "coverage.xml">>, <<"target", "site", "jacoco", "jacoco.xml">>}
    /\ call_result = <<"target", "site", "jacoco", "jacoco.xml">>

(***************************************************************************)
(* CoverageAnalyzer.analyze_coverage and analyze_coverage_with_path        *)
(*                                                                         *)
(* A file key is [abs, parts]: whether the text starts with "/", and its   *)
(* components. A dict of files is the sequence of its items [file, data].  *)
(***************************************************************************)
RelPath(parts) == [abs |-> FALSE, parts |-> parts]
AbsPath(parts) == [abs |-> TRUE, parts |-> parts]

\* os.path.isabs(k)
isabs(k) == k.abs

\* k.startswith("src/")
starts_with_src(k) == ~k.abs /\ Len(k.parts) >= 2 /\ k.parts[1] = "src"

\* os.path.normpath on the components of an absolute path: "." is dropped,
\* ".." drops the component before it and is dropped at the root.
RECURSIVE normparts(_)
normparts(parts) ==
    IF parts = <<>> THEN <<>>
    ELSE IF Last(parts) = "." THEN normparts(Front(parts))
    ELSE IF Last(parts) = ".."
    THEN (IF normparts(Front(parts)) = <<>> THEN <<>>
          ELSE Front(normparts(Front(parts))))
    ELSE Append(normparts(Front(parts)), Last(parts))

\* os.path.abspath(k) for a relative k: normpath(join(os.getcwd(), k))
abspath(k, cwd) == AbsPath(normparts(cwd.parts \o k.parts))

\* fix_path of abs_file_dict
fix_path_no_src_prefix(k, cwd) == IF isabs(k) THEN k ELSE abspath(k, cwd)

fix_path(k, cwd) ==
    IF isabs(k) THEN k
    ELSE IF starts_with_src(k) THEN abspath(k, cwd)
    ELSE abspath(RelPath(<<"src">> \o k.parts), cwd)

\* d[key] = data on a dict held as items: an existing key keeps its place.
dict_set(items, key, data) ==
    IF \E i \in 1..Len(items) : items[i].file = key
    THEN [i \in 1..Len(items) |->
             IF items[i].file = key THEN [file |-> key, data |-> data] ELSE items[i]]
    ELSE Append(items, [file |-> key, data |-> data])

\* abs_file_dict: {fix_path(k): v for k, v in d.items()}
RECURSIVE abs_file_dict(_, _)
abs_file_dict(d, cwd) ==
    IF d = <<>> THEN <<>>
    ELSE dict_set(abs_file_dict(Front(d), cwd), fix_path(Last(d).file, cwd), Last(d).data)

\* CoverageAnalyzer._parse_coverage_data
parse_coverage_data(coverage_data) ==
    IF coverage_data = <<>>
    THEN [totals |-> ("percent_covered" :> 0), files |-> <<>>]
    ELSE coverage_data

\* overall_coverage of the analysis: the report's, or its totals' percent.
overall_of(report) ==
    IF "totals" \in DOMAIN report /\ "percent_covered" \in DOMAIN report.totals
    THEN report.totals["percent_covered"]
    ELSE Get(report, "overall_coverage", 0)

\* The file_coverage that is reconciled: the report's, or its files when
\* that is empty.
file_coverage_of(report) ==
    IF Get(report, "file_coverage", <<>>) = <<>> /\ Get(report, "files", <<>>) # <<>>
    THEN report.files
    ELSE Get(report, "file_coverage", <<>>)

\* The dict the except handler returns.
analysis_error(e) ==
    [error |-> e, overall_coverage |-> 0, file_coverage |-> <<>>,
     low_coverage_areas |-> <<>>, meets_threshold |-> FALSE]

\* The dict the try block returns.
analysis_result(report, low_areas, t, cwd) ==
    [overall_coverage |-> overall_of(report),
     file_coverage |-> abs_file_dict(file_coverage_of(report), cwd),
     low_coverage_areas |-> low_areas,
     threshold |-> t,
     meets_threshold |-> (overall_of(report) >= Pct(t)),
     source_format |-> Get(report, "source_format", "pytest"),
     metadata |-> Get(report, "metadata", <<>>)]

\* The inputs: file keys as report formats write them, per-file data of
\* the JaCoCo shape and of the summary shape (50%: low, 90%: not low).
KeyPaths ==
    {RelPath(<<"a.py">>), RelPath(<<"src", "a.py">>), RelPath(<<"src">>),
     RelPath(<<"com", "example", "Foo.java">>), RelPath(<<"src", "..", "setup.py">>),
     RelPath(<<".", "a.py">>), AbsPath(<<"repo", "src", "a.py">>),
     AbsPath(<<"opt", "..", "lib", "b.py">>)}

ReportData(shape) ==
    IF shape = "direct"
    THEN {[percent_covered |-> v, missing_lines |-> <<7>>] : v \in {Pct(50), Pct(90)}}
    ELSE {[summary |-> ("percent_covered" :> v), missing_lines |-> <<7>>] :
             v \in {Pct(50), Pct(90)}}

FileItems(keys, shape) ==
    UNION {{d \in [1..n -> [file : keys, data : ReportData(shape)]] :
               \A i, j \in 1..n : i # j => d[i].file # d[j].file} :
           n \in 0..MaxReportFiles}

\* What _parse_existing_coverage returns: {}, a JaCoCo report, a converted
\* Cobertura report.
ParsedReports(keys) ==
    {<<>>}
    \cup {[overall_coverage |-> Pct(70), file_coverage |-> fc, source_format |-> "jacoco",
           metadata |-> [total_missed |-> 3, total_covered |-> 7]] :
             fc \in FileItems(keys, "direct")}
    \cup {[overall_coverage |-> Pct(70), file_coverage |-> fc, low_coverage_areas |-> <<>>,
           meets_threshold |-> FALSE, source_format |-> "cobertura"] :
             fc \in FileItems(keys, "summary")}

\* What _run_coverage_analysis returns: {}, the coverage.json pytest-cov
\* wrote, or a JSON array found under that name.
JsonList == [json_array |-> <<>>]

is_list(coverage_data) == "json_array" \in DOMAIN coverage_data

CoverageRuns(keys) ==
    {<<>>, JsonList}
    \cup {[totals |-> ("percent_covered" :> Pct(70)), files |-> fs] :
             fs \in FileItems(keys, "summary")}

WorkingDirs == {AbsPath(<<"repo">>)}

\* analyze_coverage: self._find_existing_coverage_reports()
LocateReport ==
    /\ an_pc = "locate_report"
    /\ calls' = Append(calls, "_find_existing_coverage_reports")
    /\ an_pc' = IF call_args.existing # None THEN "parse" ELSE "run"
    /\ UNCHANGED <<call_args, call_result, cobVars, selVars, ovVars, pxVars>>

\* coverage_report = self._parse_existing_coverage(...)
ParseReport ==
    /\ an_pc = "parse"
    /\ calls' = Append(calls, "_parse_existing_coverage")
    /\ call_result' = [coverage_report |-> call_args.report]
    /\ an_pc' = "select"
    /\ UNCHANGED <<call_args, cobVars, selVars, ovVars, pxVars>>

\* coverage_data = self._run_coverage_analysis(changed_files)
\* coverage_report = self._parse_coverage_data(coverage_data)
RunCoverage ==
    /\ an_pc = "run"
    /\ calls' = calls \o <<"_run_coverage_analysis", "_parse_coverage_data">>
    /\ call_result' = [coverage_report |-> parse_coverage_data(call_args.report)]
    /\ an_pc' = "select"
    /\ UNCHANGED <<call_args, cobVars, selVars, ovVars, pxVars>>

\* low_coverage_areas = self._find_low_coverage_areas(coverage_report, ...);
\* a report that is no dict raises AttributeError, which the handler of the
\* entry point turns into the error result.
SelectLowCoverage ==
    /\ an_pc = "select"
    /\ calls' = Append(calls, "_find_low_coverage_areas")
    /\ IF is_list(call_result.coverage_report)
       THEN /\ call_result' = analysis_error("AttributeError")
            /\ an_pc' = "returned"
       ELSE /\ call_result' =
                 [coverage_report |-> call_result.coverage_report,
                  low_coverage_areas |->
                      find_low_coverage_areas(call_result.coverage_report,
                                              call_args.threshold)]
            /\ an_pc' = "reconcile"
    /\ UNCHANGED <<call_args, cobVars, selVars, ovVars, pxVars>>

\* file_coverage = abs_file_dict(file_coverage) and the return.
ReconcilePaths ==
    /\ an_pc = "reconcile"
    /\ calls' = Append(calls, "abs_file_dict")
    /\ call_result' = analysis_result(call_result.coverage_report,
                                      call_result.low_coverage_areas,
                                      call_args.threshold, call_args.cwd)
    /\ an_pc' = "returned"
    /\ UNCHANGED <<call_args, cobVars, selVars, ovVars, pxVars>>

InitAnalyze ==
    /\ call_args \in
         {[entry |-> "analyze_coverage_with_path", existing |-> "coverage.xml",
           report |-> r, threshold |-> 80, cwd |-> w] :
              r \in ParsedReports(KeyPaths), w \in WorkingDirs}
         \cup
         {[entry |-> "analyze_coverage", existing |-> "coverage.xml",
           report |-> r, threshold |-> 80, cwd |-> w] :
              r \in ParsedReports(KeyPaths), w \in WorkingDirs}
         \cup
         {[entry |-> "analyze_coverage", existing |-> None,
           report |-> r, threshold |-> 80, cwd |-> w] :
              r \in CoverageRuns(KeyPaths), w \in WorkingDirs}
    /\ an_pc = IF call_args.entry = "analyze_coverage" THEN "locate_report" ELSE "parse"
    /\ call_result = <<>> /\ calls = <<>>
    /\ IdleCob /\ IdleSel /\ IdleOv /\ IdlePx

NextAnalyze ==
    LocateReport \/ ParseReport \/ RunCoverage \/ SelectLowCoverage \/ ReconcilePaths

SpecAnalyze == InitAnalyze /\ [][NextAnalyze]_vars

AnalysisReturned == an_pc = "returned"

\* The report the entry point worked on, and the keys of its files.
AnalyzedReport ==
    IF call_args.existing = None THEN parse_coverage_data(call_args.report)
    ELSE call_args.report

ParsedFileKeys ==
    IF is_list(AnalyzedReport) THEN {}
    ELSE {file_coverage_of(AnalyzedReport)[i].file :
             i \in 1..Len(file_coverage_of(AnalyzedReport))}

ReturnedFileKeys ==
    {call_result.file_coverage[i].file : i \in 1..Len(call_result.file_coverage)}

\* The path the rule gives for a parsed key k: k, cwd/k or cwd/src/k, the
\* last two as the path they denote ("." and ".." resolved).
Reconciled(k, cwd) ==
    IF k.abs THEN k
    ELSE IF Len(k.parts) >= 2 /\ k.parts[1] = "src"
    THEN AbsPath(normparts(cwd.parts \o k.parts))
    ELSE AbsPath(normparts(cwd.parts \o <<"src">> \o k.parts))

\* C15: every key of the returned file_coverage is absolute and is the
\* parsed key itself when that is absolute, cwd/k when k starts with src/,
\* cwd/src/k otherwise; every parsed key has its reconciled key in the
\* result; reconciling the returned mapping again changes nothing.
C15_KeysReconciled ==
    AnalysisReturned =>
        /\ \A key \in ReturnedFileKeys :
              key.abs /\ \E k \in ParsedFileKeys : key = Reconciled(k, call_args.cwd)
        /\ \A k \in ParsedFileKeys : Reconciled(k, call_args.cwd) \in ReturnedFileKeys
        /\ abs_file_dict(call_result.file_coverage, call_args.cwd)
              = call_result.file_coverage

C15_Witness ==
    /\ AnalysisReturned
    /\ call_args.entry = "analyze_coverage"
    /\ Cardinality(ReturnedFileKeys) = 2
    /\ \E k \in ParsedFileKeys : starts_with_src(k)
    /\ \E k \in ParsedFileKeys : ~isabs(k) /\ ~starts_with_src(k)

\* C16: the file of every low_coverage_areas entry is a key of the
\* returned file_coverage.
C16_LowAreasKeyedByReturnedFiles ==
    AnalysisReturned =>
        \A i \in 1..Len(call_result.low_coverage_areas) :
            call_result.low_coverage_areas[i].file \in ReturnedFileKeys

\* The order the code has: selection before reconciliation, so an area
\* carries the key as parsed.
C16_LowAreasKeyedByParsedFiles ==
    AnalysisReturned =>
        \A i \in 1..Len(call_result.low_coverage_areas) :
            call_result.low_coverage_areas[i].file \in ParsedFileKeys

(***************************************************************************)
(* The overall coverage of the normalized result, per format               *)
(***************************************************************************)
\* Cobertura documents whose root line-rate varies.
PercentCobertura ==
    {[kind |-> "xml", wellformed |-> TRUE, entities |-> "none", root_tag |-> "coverage",
      root |-> rt, packages |-> <<>>, packages_elem |-> cs] :
        rt \in Opt("line-rate", {"0", "0.5", "1.0", "1.5", "nan", "oops"}),
        cs \in XmlPackagesElem}

\* JaCoCo documents with one sourcefile counted by its lines or by a LINE
\* counter.
PercentJacoco ==
    {[kind |-> "xml", wellformed |-> TRUE, entities |-> "none", root_tag |-> "report",
      root |-> <<>>, packages_elem |-> <<>>,
      packages |-> <<[attrs |-> ("name" :> "com/example"),
                      sourcefiles |-> <<[name |-> "Foo.java", lines |-> ls,
                                         counters |-> cs]>>]>>] :
        ls \in {<<>>, <<("nr" :> "1") @@ ("ci" :> "0"), ("nr" :> "2") @@ ("ci" :> "3")>>},
        cs \in {<<("type" :> "LINE") @@ ("missed" :> mi) @@ ("covered" :> co)>> :
                   mi \in {"0", "1", "3", "-1"}, co \in {"0", "1", "3", "-1"}}}

\* JSON documents: aggregate-style with the percentage the report states,
\* and Istanbul-style.
PercentJson ==
    {[kind |-> "json",
      data |-> JObject([totals |-> JObject(("percent_covered" :> v)), files |-> JObject(fs)])] :
        v \in {Pct(0), Pct(75), Pct(100), Pct(150), 0 - Pct(5), NaN},
        fs \in {<<>>, ("src/x.py" :> [summary |-> ("percent_covered" :> Pct(75)),
                                      missing_lines |-> <<5>>])}}
    \cup
    {[kind |-> "json", data |-> JObject(a @@ b)] :
        a \in Req("a.js", {IstanbulFile, JObject(<<>>)}),
        b \in Opt("b.ts", {IstanbulFile})}

InitPercent ==
    /\ report_file \in
         {[path |-> "coverage.xml", exists |-> TRUE, readable |-> TRUE,
           content |-> c, disk |-> {}] : c \in PercentCobertura}
         \cup
         {[path |-> "target/site/jacoco/jacoco.xml", exists |-> TRUE, readable |-> TRUE,
           content |-> c, disk |-> d] : c \in PercentJacoco, d \in Disks}
         \cup
         {[path |-> "coverage.json", exists |-> TRUE, readable |-> TRUE,
           content |-> c, disk |-> {}] : c \in PercentJson}
    /\ outcome = <<>> /\ expanded = FALSE /\ attempts = <<>> /\ px_pc = "idle"
    /\ IdleCob /\ IdleSel /\ IdleOv /\ IdleAn

NextPercent == ParseExistingCoverage

SpecPercent == InitPercent /\ [][NextPercent]_vars

\* A report was parsed and normalized.
Normalized ==
    /\ px_pc = "existing_returned"
    /\ outcome.exc = "none" /\ outcome.val # <<>>
    /\ "overall_coverage" \in DOMAIN outcome.val

in_percent_range(x) == x # NaN /\ 0 <= x /\ x <= Pct(100)

\* C17: the overall coverage of every normalized result, whatever the
\* format of the report, is a percentage within [0,100].
C17_OverallWithinPercentRange ==
    Normalized => in_percent_range(outcome.val.overall_coverage)

\* What does hold: the Istanbul value, and the JaCoCo value of a report
\* whose counts are not negative, are computed as covered / total * 100
\* and lie within [0,100].
C17_ComputedWithinPercentRange ==
    (/\ Normalized
     /\ outcome.val.source_format \in {"istanbul", "jacoco"}
     /\ "error" \notin DOMAIN outcome.val
     /\ (outcome.val.source_format = "jacoco" =>
            outcome.val.metadata.total_missed >= 0
            /\ outcome.val.metadata.total_covered >= 0))
    => in_percent_range(outcome.val.overall_coverage)

(***************************************************************************)
(* PRCoverageAnalyzer.analyze_pr                                           *)
(***************************************************************************)
\* os.path.abspath(coverage_area["file"]): relative to the working
\* directory, normalized.
area_path(file, cwd) ==
    IF isabs(file) THEN AbsPath(normparts(file.parts)) ELSE abspath(file, cwd)

\* file_path.startswith(project_src_dir), project_src_dir = abspath("src")
in_project_src(file_path, cwd) == IsPrefix(cwd.parts \o <<"src">>, file_path.parts)

\* The loop of CodeAnalyzer.find_uncovered_areas over the low-coverage
\* areas; sources are the files _analyze_file_structure can read and in
\* which a function spans the missing lines.
RECURSIVE uncovered_in(_, _, _)
uncovered_in(areas, cwd, sources) ==
    IF areas = <<>> THEN <<>>
    ELSE IF /\ in_project_src(area_path(Last(areas).file, cwd), cwd)
            /\ area_path(Last(areas).file, cwd) \in sources
    THEN Append(uncovered_in(Front(areas), cwd, sources),
                [file_path |-> area_path(Last(areas).file, cwd),
                 function_name |-> "f",
                 missing_lines |-> Last(areas).missing_lines])
    ELSE uncovered_in(Front(areas), cwd, sources)

\* CodeAnalyzer.find_uncovered_areas
find_uncovered_areas(report, cwd, sources) ==
    uncovered_in(Get(report, "low_coverage_areas", <<>>), cwd, sources)

\* `if uncovered_areas:`
any_area(uncovered_areas) == TRUE

has_uncovered(uncovered_areas) == uncovered_areas # <<>>

\* The dict the except handler of analyze_pr returns.
pr_error(e) == [error |-> e, success |-> FALSE]

\* Step 1: pr_manager.get_pr_info and get_changed_files.
GetPrInfo ==
    /\ an_pc = "get_pr_info"
    /\ IF call_args.scenario = "pr_info_fails"
       THEN /\ calls' = Append(calls, "get_pr_info")
            /\ call_result' = pr_error("GithubException")
            /\ an_pc' = "pr_returned"
       ELSE /\ calls' = calls \o <<"get_pr_info", "get_changed_files">>
            /\ call_result' = call_result
            /\ an_pc' = "locate_report"
    /\ UNCHANGED <<call_args, cobVars, selVars, ovVars, pxVars>>

\* Step 3: code_analyzer.find_uncovered_areas on what analyze_coverage
\* returned.
FindUncoveredAreas ==
    /\ an_pc = "returned" /\ call_args.entry = "analyze_pr"
    /\ calls' = Append(calls, "find_uncovered_areas")
    /\ \E areas \in {find_uncovered_areas(call_result, call_args.cwd, call_args.sources)} :
          /\ call_result' = [coverage_report |-> call_result, uncovered_areas |-> areas]
          /\ an_pc' = IF has_uncovered(areas) THEN "generate" ELSE "adequate"
    /\ UNCHANGED <<call_args, cobVars, selVars, ovVars, pxVars>>

\* TestGenerator.generate_tests: no test when the LLM client is not
\* configured; else one test per area, but none for an area whose
\* _generate_test_for_function raises or returns nothing.
RECURSIVE generate_tests(_, _)
generate_tests(uncovered_areas, scenario) ==
    IF scenario = "client_not_configured" \/ uncovered_areas = <<>> THEN <<>>
    ELSE IF scenario = "first_area_fails" /\ Len(uncovered_areas) = 1 THEN <<>>
    ELSE Append(generate_tests(Front(uncovered_areas), scenario),
                Last(uncovered_areas).file_path)

\* Step 4: test_generator.generate_tests(uncovered_areas)
GenerateTests ==
    /\ an_pc = "generate"
    /\ calls' = Append(calls, "generate_tests")
    /\ IF call_args.scenario = "generate_fails"
       THEN /\ call_result' = pr_error("RuntimeError")
            /\ an_pc' = "pr_returned"
       ELSE /\ call_result' =
                 [coverage_report |-> call_result.coverage_report,
                  generated_tests |-> generate_tests(call_result.uncovered_areas,
                                                     call_args.scenario)]
            /\ an_pc' = "create_pr"
    /\ UNCHANGED <<call_args, cobVars, selVars, ovVars, pxVars>>

\* Step 5: pr_manager.create_test_pr(...) and the return.
CreateTestPr ==
    /\ an_pc = "create_pr"
    /\ calls' = Append(calls, "create_test_pr")
    /\ call_result' =
          IF call_args.scenario = "create_pr_fails" THEN pr_error("GithubException")
          ELSE [original_pr |-> "pr_info",
                coverage_report |-> call_result.coverage_report,
                generated_tests |-> call_result.generated_tests,
                new_pr |-> "new_pr_info",
                success |-> TRUE]
    /\ an_pc' = "pr_returned"
    /\ UNCHANGED <<call_args, cobVars, selVars, ovVars, pxVars>>

\* The else branch: nothing to generate.
ReportAdequate ==
    /\ an_pc = "adequate"
    /\ call_result' = [original_pr |-> "pr_info",
                       coverage_report |-> call_result.coverage_report,
                       message |-> "Coverage is adequate",
                       success |-> TRUE]
    /\ an_pc' = "pr_returned"
    /\ UNCHANGED <<call_args, calls, cobVars, selVars, ovVars, pxVars>>

\* The keys of the reports analyze_pr is run on, the source files of the
\* project, and what the collaborators do.
PrKeyPaths ==
    {RelPath(<<"a.py">>), RelPath(<<"src", "a.py">>), AbsPath(<<"repo", "src", "a.py">>)}

PrSources == SUBSET {AbsPath(<<"repo", "src", "a.py">>)}

Scenarios ==
    {"ok", "pr_info_fails", "generate_fails", "create_pr_fails",
     "client_not_configured", "first_area_fails"}

InitPr ==
    /\ call_args \in
         {[entry |-> "analyze_pr", existing |-> "coverage.xml", report |-> r,
           threshold |-> 80, cwd |-> w, sources |-> src, scenario |-> sc] :
              r \in ParsedReports(PrKeyPaths), w \in WorkingDirs,
              src \in PrSources, sc \in Scenarios}
         \cup
         {[entry |-> "analyze_pr", existing |-> None, report |-> r,
           threshold |-> 80, cwd |-> w, sources |-> src, scenario |-> sc] :
              r \in CoverageRuns(PrKeyPaths), w \in WorkingDirs,
              src \in PrSources, sc \in Scenarios}
    /\ an_pc = "get_pr_info"
    /\ call_result = <<>> /\ calls = <<>>
    /\ IdleCob /\ IdleSel /\ IdleOv /\ IdlePx

NextPr ==
    \/ GetPrInfo
    \/ LocateReport \/ ParseReport \/ RunCoverage \/ SelectLowCoverage \/ ReconcilePaths
    \/ FindUncoveredAreas \/ GenerateTests \/ CreateTestPr \/ ReportAdequate

SpecPr == InitPr /\ [][NextPr]_vars

\* analyze_coverage ran and its input held no file: no report was found and
\* the run left nothing, or the report has no files.
NoCoverageData ==
    /\ "_find_low_coverage_areas" \in Range(calls)
    /\ ParsedFileKeys = {}

\* C18: when the coverage analysis yields no coverage data, generate_tests
\* and create_test_pr are never invoked, and analyze_pr returns success
\* True with the message that coverage is adequate.
C18_NoDataIsNothingToDo ==
    NoCoverageData =>
        /\ "generate_tests" \notin Range(calls)
        /\ "create_test_pr" \notin Range(calls)
        /\ an_pc \in {"select", "reconcile", "returned", "adequate", "pr_returned"}
        /\ (an_pc = "pr_returned" =>
               /\ call_result.success = TRUE
               /\ "message" \in DOMAIN call_result
               /\ call_result.message = "Coverage is adequate")

\* No report was found, the run left no coverage.json, and analyze_pr has
\* returned.
C18_Witness ==
    /\ an_pc = "pr_returned"
    /\ NoCoverageData
    /\ call_args.existing = None /\ call_args.report = <<>>
    /\ call_args.sources # {}
    /\ "_run_coverage_analysis" \in Range(calls)

(***************************************************************************)
(* The same report file parsed twice                                       *)
(***************************************************************************)
Parsers == {"parse_coverage_file", "_parse_jacoco_coverage", "_parse_existing_coverage"}

\* What a parser returns (or raises) for the file.
parse_with(parser, file) ==
    CASE parser = "parse_coverage_file" -> parse_coverage_file(file)
      [] parser = "_parse_jacoco_coverage" -> parse_jacoco_coverage(file)
      [] OTHER -> parse_existing_coverage(file).out

TwiceFiles ==
    {f \in ReportFiles :
        f.path \in {"coverage.xml", "target/site/jacoco/jacoco.xml", "coverage.json"}}

\* The first parse; the source tree it ran against is noted.
FirstParse ==
    /\ px_pc = "idle"
    /\ outcome' = parse_with(call_args.parser, report_file)
    /\ call_args' = [call_args EXCEPT !.disk = report_file.disk]
    /\ px_pc' = "parsed_once"
    /\ UNCHANGED <<report_file, expanded, attempts, call_result, calls, an_pc,
                   cobVars, selVars, ovVars>>

\* Between the parses a source file appears in, or disappears from, the
\* working directory; the report file stays as it is.
TouchSources ==
    /\ px_pc = "parsed_once"
    /\ \E d \in Disks \ {report_file.disk} :
          report_file' = [report_file EXCEPT !.disk = d]
    /\ px_pc' = "sources_touched"
    /\ UNCHANGED <<outcome, expanded, attempts, anVars, cobVars, selVars, ovVars>>

\* The second parse of the same file with the same parser; call_result
\* keeps what the first parse returned.
SecondParse ==
    /\ px_pc \in {"parsed_once", "sources_touched"}
    /\ call_result' = outcome
    /\ outcome' = parse_with(call_args.parser, report_file)
    /\ px_pc' = "parsed_twice"
    /\ UNCHANGED <<report_file, expanded, attempts, call_args, calls, an_pc,
                   cobVars, selVars, ovVars>>

InitTwice ==
    /\ report_file \in TwiceFiles
    /\ outcome = <<>> /\ expanded = FALSE /\ attempts = <<>> /\ px_pc = "idle"
    /\ call_args \in {[parser |-> p, disk |-> {}] : p \in Parsers}
    /\ call_result = <<>> /\ calls = <<>> /\ an_pc = "idle"
    /\ IdleCob /\ IdleSel /\ IdleOv

NextTwice == FirstParse \/ TouchSources \/ SecondParse

SpecTwice == InitTwice /\ [][NextTwice]_vars

ParsedTwice == px_pc = "parsed_twice"

float_minus(x, y) == IF x = NaN \/ y = NaN THEN NaN ELSE x - y
float_gt(x, y) == x # NaN /\ y # NaN /\ x > y
float_ge_strict(x, y) == x # NaN /\ y # NaN /\ x > y

float_ge(x, y) == x # NaN /\ y # NaN /\ x >= y

\* x / y * 100 for y # 0, and the int 0 of the else branch.
Fraction(num, den) == [num |-> num, den |-> den]
div_times_100(x, y) ==
    IF x = NaN \/ y = NaN THEN Fraction(NaN, 1) ELSE Fraction(x * 100, y)
ZeroPercent == Fraction(0, 1)

\* The returned dict.
calculate_coverage_improvement(before, after, min_coverage_increase) ==
    [before |-> Get(before, "overall_coverage", 0),
     after |-> Get(after, "overall_coverage", 0),
     improvement |-> float_minus(Get(after, "overall_coverage", 0),
                                 Get(before, "overall_coverage", 0)),
     improvement_percentage |->
         IF float_gt(Get(before, "overall_coverage", 0), 0)
         THEN div_times_100(float_minus(Get(after, "overall_coverage", 0),
                                        Get(before, "overall_coverage", 0)),
                            Get(before, "overall_coverage", 0))
         ELSE ZeroPercent,
     meets_minimum_increase |->
         float_ge(float_minus(Get(after, "overall_coverage", 0),
                              Get(before, "overall_coverage", 0)),
                  Pct(min_coverage_increase))]

\* The reports compared: without overall_coverage, or with a value.
CoverageValues ==
    {0, Pct(50), Pct(65), Pct(70), Pct(75), Pct(78), Pct(100), Pct(150), 0 - Pct(10), NaN}

ComparedReports == {<<>>} \cup {("overall_coverage" :> v) : v \in CoverageValues}

MinIncreases == {5, 10}

CalculateCoverageImprovement ==
    /\ an_pc = "improve"
    /\ calls' = Append(calls, "calculate_coverage_improvement")
    /\ call_result' = calculate_coverage_improvement(call_args.before, call_args.after,
                                                     call_args.min_coverage_increase)
    /\ an_pc' = "improved"
    /\ UNCHANGED <<call_args, cobVars, selVars, ovVars, pxVars>>

InitImprovement ==
    /\ call_args \in [before : ComparedReports, after : ComparedReports,
                      min_coverage_increase : MinIncreases]
    /\ an_pc = "improve"
    /\ call_result = <<>> /\ calls = <<>>
    /\ IdleCob /\ IdleSel /\ IdleOv /\ IdlePx

NextImprovement == CalculateCoverageImprovement

SpecImprovement == InitImprovement /\ [][NextImprovement]_vars

\* The two overall coverages of the call, 0 when absent.
BeforeCoverage ==
    IF "overall_coverage" \in DOMAIN call_args.before
    THEN call_args.before["overall_coverage"] ELSE 0

AfterCoverage ==
    IF "overall_coverage" \in DOMAIN call_args.after
    THEN call_args.after["overall_coverage"] ELSE 0

IsNumber(x) == x # NaN

\* C20: improvement is after - before (each 0 when absent);
\* improvement_percentage is improvement / before * 100 when before > 0
\* and 0 otherwise; meets_minimum_increase holds iff improvement >=
\* min_coverage_increase. With a NaN operand the difference and the
\* quotient are NaN and every comparison is false.
C20_ImprovementAsComputed ==
    an_pc = "improved" =>
        /\ call_result.before = BeforeCoverage
        /\ call_result.after = AfterCoverage
        /\ call_result.improvement =
              (IF IsNumber(AfterCoverage) /\ IsNumber(BeforeCoverage)
               THEN AfterCoverage - BeforeCoverage ELSE NaN)
        /\ IF IsNumber(BeforeCoverage) /\ BeforeCoverage > 0
           THEN IF IsNumber(AfterCoverage)
                THEN /\ call_result.improvement_percentage.num
                           = (AfterCoverage - BeforeCoverage) * 100
                     /\ call_result.improvement_percentage.den = BeforeCoverage
                ELSE call_result.improvement_percentage.num = NaN
           ELSE call_result.improvement_percentage = Fraction(0, 1)
        /\ call_result.meets_minimum_increase
              = (/\ IsNumber(AfterCoverage) /\ IsNumber(BeforeCoverage)
                 /\ AfterCoverage - BeforeCoverage
                       >= call_args.min_coverage_increase * 100)

\* The case of the test: 65 to 78 gives improvement 13, 20 percent, and the
\* minimum of 5 met.
C20_Witness ==
    /\ an_pc = "improved"
    /\ BeforeCoverage = 6500 /\ AfterCoverage = 7800
    /\ call_args.min_coverage_increase = 5
    /\ call_result.improvement = 1300
    /\ call_result.improvement_percentage.num = 20 * call_result.improvement_percentage.den
    /\ call_result.meets_minimum_increase

(***************************************************************************)
(* Failure policy on the attributes of the <coverage> root                 *)
(***************************************************************************)
\* The numeric root attributes with the totals field each one feeds, and
\* whether float() or int() converts it.
RootAttrs ==
    {[attr |-> "line-rate", field |-> "line_rate", conv |-> "float"],
     [attr |-> "branch-rate", field |-> "branch_rate", conv |-> "float"],
     [attr |-> "lines-covered", field |-> "lines_covered", conv |-> "int"],
     [attr |-> "lines-valid", field |-> "lines_valid", conv |-> "int"],
     [attr |-> "branches-covered", field |-> "branches_covered", conv |-> "int"],
     [attr |-> "branches-valid", field |-> "branches_valid", conv |-> "int"]}

AttrParses(r, a) == IF a.conv = "float" THEN FloatOk(r, a.attr) ELSE IntOk(r, a.attr)
AttrValue(r, a) == IF a.conv = "float" THEN FloatOf(r, a.attr) ELSE IntOf(r, a.attr)

FailedAttrs(r) == {a \in RootAttrs : ~AttrParses(r, a)}

\* C21 as stated (refuted): when one numeric root attribute fails to parse,
\* only that attribute defaults to 0 and every other root attribute keeps
\* its parsed value in the overall totals.
C21_OnlyFailedAttributeDefaults ==
    (ov_pc = "returned" /\ Cardinality(FailedAttrs(root)) = 1) =>
        /\ totals.exc = "none"
        /\ \A a \in RootAttrs :
              totals.val[a.field] = IF AttrParses(root, a) THEN AttrValue(root, a) ELSE 0

\* C21 (amended): the six root attributes are converted as one group: when
\* all of them parse, every totals field holds its parsed value (0 when
\* the attribute is absent) and percent_covered is line_rate * 100; when
\* any of them fails, every totals field is 0, the parsed ones included,
\* and no exception leaves the call.
C21_RootAttributesFailTogether ==
    ov_pc = "returned" =>
        /\ totals.exc = "none"
        /\ IF FailedAttrs(root) = {}
           THEN /\ \A a \in RootAttrs : totals.val[a.field] = AttrValue(root, a)
                /\ totals.val.percent_covered = float_times(AttrValue(root,
                       [attr |-> "line-rate", field |-> "line_rate", conv |-> "float"]), 100)
           ELSE \A k \in DOMAIN totals.val : totals.val[k] = 0

\* Only branches-valid fails, line-rate is 0.75, and the totals hold
\* line_rate 0.
C21_Witness ==
    /\ ov_pc = "returned"
    /\ \A a \in FailedAttrs(root) : a.attr = "branches-valid"
    /\ FailedAttrs(root) # {}
    /\ "line-rate" \in DOMAIN root /\ root["line-rate"] = "0.75"
    /\ "lines-valid" \in DOMAIN root /\ root["lines-valid"] = "10"
    /\ totals.val.line_rate = 0 /\ totals.val.lines_valid = 0

(***************************************************************************)
(* The order of the XML parsers in _parse_existing_coverage                *)
(***************************************************************************)
\* What a run of the XML branch must show, given the marker, the JaCoCo
\* parser's result and the Cobertura parser's result for the file.
XmlSelection(marker, jacoco_result, cobertura_data) ==
    IF marker /\ ~NoFileCoverage(jacoco_result)
    THEN attempts = <<"jacoco">> /\ outcome.val = jacoco_result
    ELSE /\ SubSeq(attempts, 1, Len(attempts) - (IF cobertura_data = <<>> THEN 1 ELSE 0))
               = (IF marker THEN <<"jacoco", "cobertura">> ELSE <<"cobertura">>)
         /\ IF cobertura_data # <<>>
            THEN outcome.val = convert_to_standard_format(cobertura_data)
            ELSE attempts[Len(attempts)] = "jacoco" /\ outcome.val = jacoco_result

\* C22: for an XML file whose path carries a JaCoCo marker the JaCoCo
\* parser runs first and its result is returned iff it has file coverage;
\* otherwise the Cobertura parser runs and its normalized result is
\* returned iff the parse is non-empty; otherwise the JaCoCo parser's
\* result is returned. Without the marker the Cobertura parser runs before
\* the JaCoCo parser.
C22_XmlParserSelection ==
    (px_pc = "existing_returned" /\ XmlSuffix(report_file)) =>
        /\ outcome.exc = "none"
        /\ XmlSelection(has_jacoco_marker(report_file.path),
                        parse_jacoco_coverage(report_file).val,
                        parse_coverage_file(report_file).val)

\* A JaCoCo report under a path with the marker that the JaCoCo parser
\* finds no file in and the Cobertura parser rejects: all three attempts
\* were made.
C22_Witness ==
    /\ px_pc = "existing_returned"
    /\ report_file.path = "target/site/jacoco/jacoco.xml"
    /\ Opens(report_file) /\ IsXml(report_file.content)
    /\ report_file.content.root_tag = "report"
    /\ attempts = <<"jacoco", "cobertura", "jacoco">>
    /\ outcome.val.source_format = "jacoco"

(***************************************************************************)
(* The order of the JaCoCo candidates                                      *)
(***************************************************************************)
\* The candidates for Foo.java as the claim lists them: six for package
\* com/example, the three without the package for a <package> with no
\* name.
ListedCandidates ==
    IF Get(report_file.content.packages[1].attrs, "name", "") = ""
    THEN <<"src/main/java/Foo.java", "src/Foo.java", "Foo.java">>
    ELSE <<"com/example/Foo.java", "src/main/java/com/example/Foo.java",
           "src/com/example/Foo.java", "src/main/java/Foo.java", "src/Foo.java",
           "Foo.java">>

FirstOnDisk(cands, disk, i) ==
    /\ cands[i] \in disk
    /\ \A j \in 1..(i - 1) : cands[j] \notin disk

\* C23: the key chosen for the sourcefile is the first listed candidate
\* that exists on disk (the package written with dots is read with
\* slashes), and the first candidate when none exists.
C23_FirstExistingCandidate ==
    (px_pc = "existing_returned" /\ outcome.exc = "none") =>
        \E i \in 1..Len(ListedCandidates) :
            /\ DOMAIN outcome.val.file_coverage = {ListedCandidates[i]}
            /\ \/ FirstOnDisk(ListedCandidates, report_file.disk, i)
               \/ i = 1 /\ \A j \in 1..Len(ListedCandidates) :
                              ListedCandidates[j] \notin report_file.disk

\* Package com.example, with the third and the last candidate on disk: the
\* third is the key.
C23_Witness ==
    /\ px_pc = "existing_returned"
    /\ Get(report_file.content.packages[1].attrs, "name", "") = "com.example"
    /\ report_file.disk = {"src/com/example/Foo.java", "Foo.java"}
    /\ DOMAIN outcome.val.file_coverage = {"src/com/example/Foo.java"}

(***************************************************************************)
(* The lines and counters of one JaCoCo <sourcefile>                       *)
(***************************************************************************)
JacocoLineElems ==
    {n @@ c : n \in Req("nr", {"1", "2"}), c \in Opt("ci", {"0", "3", "-1"})}

JacocoLineSeqs(n) == [1..n -> JacocoLineElems]

JacocoCounterSeqs ==
    {<<>>,
     <<("type" :> "LINE") @@ ("missed" :> "1") @@ ("covered" :> "3")>>,
     <<("type" :> "BRANCH") @@ ("missed" :> "2") @@ ("covered" :> "2"),
       ("type" :> "LINE") @@ ("missed" :> "3") @@ ("covered" :> "1")>>}

\* A JaCoCo report with one <sourcefile name="Foo.java">.
LinesReport(ls, cs) ==
    [kind |-> "xml", wellformed |-> TRUE, entities |-> "none", root_tag |-> "report",
     root |-> <<>>, packages_elem |-> <<>>,
     packages |-> <<[attrs |-> ("name" :> "com/example"),
                     sourcefiles |-> <<[name |-> "Foo.java", lines |-> ls,
                                        counters |-> cs]>>]>>]

InitJacocoLines ==
    /\ \E n \in 0..MaxJacocoLines :
          report_file \in
             {[path |-> "target/site/jacoco/jacoco.xml", exists |-> TRUE,
               readable |-> TRUE, content |-> LinesReport(ls, cs), disk |-> {}] :
                  ls \in JacocoLineSeqs(n), cs \in JacocoCounterSeqs}
    /\ outcome = <<>> /\ expanded = FALSE /\ attempts = <<>> /\ px_pc = "idle"
    /\ IdleCob /\ IdleSel /\ IdleOv /\ IdleAn

NextJacocoLines == ParseExistingCoverage

SpecJacocoLines == InitJacocoLines /\ [][NextJacocoLines]_vars

\* The <line> and <counter> elements of the sourcefile, and its entry.
SourceLines == report_file.content.packages[1].sourcefiles[1].lines
SourceCounters == report_file.content.packages[1].sourcefiles[1].counters
FooEntry == outcome.val.file_coverage["com/example/Foo.java"]

LineCovered(line) == "ci" \in DOMAIN line /\ IntLit[line["ci"]] > 0

\* The nr values of the lines of ls that satisfy (or not) ci > 0, in order.
RECURSIVE LinesWhere(_, _)
LinesWhere(ls, covered) ==
    IF ls = <<>> THEN <<>>
    ELSE IF LineCovered(Last(ls)) = covered
    THEN Append(LinesWhere(Front(ls), covered), IntLit[Last(ls)["nr"]])
    ELSE LinesWhere(Front(ls), covered)

RECURSIVE LineCounterSum(_, _)
LineCounterSum(cs, k) ==
    IF cs = <<>> THEN 0
    ELSE LineCounterSum(Front(cs), k)
         + (IF Last(cs)["type"] = "LINE" THEN IntLit[Last(cs)[k]] ELSE 0)

\* C24: each <line> with ci > 0 is in covered_lines and each other <line>
\* in missing_lines; covered and missed are the counts of those lines, and
\* the LINE counter totals only when the sourcefile has no <line>;
\* percent_covered is covered / (covered + missed) * 100, and 0 when
\* covered + missed is 0.
C24_JacocoLineClassification ==
    (px_pc = "existing_returned") =>
        /\ outcome.exc = "none"
        /\ FooEntry.covered_lines = LinesWhere(SourceLines, TRUE)
        /\ FooEntry.missing_lines = LinesWhere(SourceLines, FALSE)
        /\ IF SourceLines # <<>>
           THEN /\ FooEntry.covered = Len(FooEntry.covered_lines)
                /\ FooEntry.missed = Len(FooEntry.missing_lines)
           ELSE /\ FooEntry.covered = LineCounterSum(SourceCounters, "covered")
                /\ FooEntry.missed = LineCounterSum(SourceCounters, "missed")
        /\ FooEntry.total = FooEntry.covered + FooEntry.missed
        /\ FooEntry.percent_covered =
              (IF FooEntry.total = 0 THEN 0
               ELSE (FooEntry.covered * 10000) \div FooEntry.total)

\* A sourcefile with a covered and a missing <line> and a LINE counter that
\* says otherwise: the lines decide, 50 percent.
C24_Witness ==
    /\ px_pc = "existing_returned"
    /\ Len(SourceLines) = 2 /\ Len(SourceCounters) = 1
    /\ FooEntry.covered_lines = <<2>> /\ FooEntry.missing_lines = <<1>>
    /\ FooEntry.covered = 1 /\ FooEntry.missed = 1
    /\ FooEntry.percent_covered = Pct(50)

(***************************************************************************)
(* _convert_istanbul_format over the statements of a file                  *)
(***************************************************************************)
\* s of a.js: statements "0" and "1", each absent, never hit, or hit.
IstanbulHits ==
    {s0 \o s1 :
        s0 \in {<<>>, <<[id |-> "0", hit_count |-> 0]>>, <<[id |-> "0", hit_count |-> 2]>>},
        s1 \in {<<>>, <<[id |-> "1", hit_count |-> 0]>>, <<[id |-> "1", hit_count |-> 1]>>}}

\* statementMap of a.js: an entry for "0" and for "1", each absent, with a
\* start line, or with a start that has no line.
IstanbulMaps ==
    {m0 @@ m1 :
        m0 \in {<<>>, ("0" :> ("start" :> ("line" :> 3))), ("0" :> ("start" :> <<>>))},
        m1 \in {<<>>, ("1" :> ("start" :> ("line" :> 4))), ("1" :> ("start" :> <<>>))}}

InitIstanbul ==
    /\ report_file \in
         {[path |-> "coverage.json", exists |-> TRUE, readable |-> TRUE,
           content |-> [kind |-> "json",
                        data |-> JObject(("a.js" :> JObject([s |-> hits, statementMap |-> map]))
                                         @@ b)],
           disk |-> {}] :
              hits \in IstanbulHits, map \in IstanbulMaps, b \in Opt("b.ts", {IstanbulFile})}
    /\ outcome = <<>> /\ expanded = FALSE /\ attempts = <<>> /\ px_pc = "idle"
    /\ IdleCob /\ IdleSel /\ IdleOv /\ IdleAn

NextIstanbul == ParseExistingCoverage

SpecIstanbul == InitIstanbul /\ [][NextIstanbul]_vars

IstanbulFiles == report_file.content.data.members

StartLine(map, id) == Get(Get(map[id], "start", <<>>), "line", 0)

\* The start lines the statements of a file contribute, by hit count > 0
\* or not: of the statements in both s and statementMap, and with
\* needs_line only of those whose start has a line.
RECURSIVE Contributed(_, _, _, _)
Contributed(hits, map, covered, needs_line) ==
    IF hits = <<>> THEN <<>>
    ELSE IF /\ Last(hits).id \in DOMAIN map
            /\ (needs_line => StartLine(map, Last(hits).id) # 0)
            /\ (Last(hits).hit_count > 0) = covered
    THEN Append(Contributed(Front(hits), map, covered, needs_line),
                StartLine(map, Last(hits).id))
    ELSE Contributed(Front(hits), map, covered, needs_line)

FileCovered(k, needs_line) ==
    Contributed(IstanbulFiles[k].members.s, IstanbulFiles[k].members.statementMap,
                TRUE, needs_line)
FileMissing(k, needs_line) ==
    Contributed(IstanbulFiles[k].members.s, IstanbulFiles[k].members.statementMap,
                FALSE, needs_line)

RECURSIVE SumLen(_, _, _)
SumLen(keys, covered_only, needs_line) ==
    IF keys = {} THEN 0
    ELSE LET k == CHOOSE k \in keys : TRUE IN
         Len(FileCovered(k, needs_line))
         + (IF covered_only THEN 0 ELSE Len(FileMissing(k, needs_line)))
         + SumLen(keys \ {k}, covered_only, needs_line)

\* The result of the conversion, given which statements contribute.
IstanbulAsStated(needs_line) ==
    /\ outcome.exc = "none" /\ outcome.val # <<>>
    /\ DOMAIN outcome.val.file_coverage =
          {k \in DOMAIN IstanbulFiles :
              FileCovered(k, needs_line) \o FileMissing(k, needs_line) # <<>>}
    /\ \A k \in DOMAIN outcome.val.file_coverage :
          /\ outcome.val.file_coverage[k].covered_lines = FileCovered(k, needs_line)
          /\ outcome.val.file_coverage[k].missing_lines = FileMissing(k, needs_line)
          /\ outcome.val.file_coverage[k].summary.percent_covered =
                (Len(FileCovered(k, needs_line)) * 10000)
                   \div (Len(FileCovered(k, needs_line)) + Len(FileMissing(k, needs_line)))
    /\ outcome.val.overall_coverage =
          (IF SumLen(DOMAIN IstanbulFiles, FALSE, needs_line) = 0 THEN 0
           ELSE (SumLen(DOMAIN IstanbulFiles, TRUE, needs_line) * 10000)
                   \div SumLen(DOMAIN IstanbulFiles, FALSE, needs_line))

\* C25 as stated (refuted): each statement id present in both s and
\* statementMap contributes its start line to covered_lines when its hit
\* count > 0 and to missing_lines otherwise, and the percentages are
\* computed over those statements.
C25_EveryMappedStatementCounts ==
    px_pc = "existing_returned" => IstanbulAsStated(FALSE)

\* C25 (amended): each statement id present in both s and statementMap
\* whose statementMap entry has a start line contributes that line to
\* covered_lines when its hit count > 0 and to missing_lines otherwise; a
\* statement without a start line contributes nothing; a file has an entry
\* when some statement contributes, with percent_covered == covered /
\* (covered + missing) * 100; overall_coverage is the same ratio over the
\* sums of all files, 0 when no statement contributes.
C25_MappedStatementsWithLineCount ==
    px_pc = "existing_returned" => IstanbulAsStated(TRUE)

\* a.js has statement "0" hit with start line 3 and statement "1" in both
\* maps without a start line: only line 3 is counted, 100 percent.
C25_Witness ==
    /\ px_pc = "existing_returned"
    /\ DOMAIN IstanbulFiles = {"a.js"}
    /\ Len(IstanbulFiles["a.js"].members.s) = 2
    /\ DOMAIN IstanbulFiles["a.js"].members.statementMap = {"0", "1"}
    /\ StartLine(IstanbulFiles["a.js"].members.statementMap, "1") = 0
    /\ outcome.exc = "none" /\ outcome.val # <<>>
    /\ "a.js" \in DOMAIN outcome.val.file_coverage
    /\ outcome.val.file_coverage["a.js"].covered_lines = <<3>>
    /\ outcome.val.file_coverage["a.js"].missing_lines = <<>>
    /\ outcome.val.overall_coverage = Pct(100)

\* C26 as stated (refuted by the code): distinct file keys of the parsed
\* report are rewritten to distinct absolute keys, so the reconciled
\* file_coverage has exactly as many entries as the parsed one.
C26_ReconciliationKeepsEveryFile ==
    AnalysisReturned =>
        /\ \A k1, k2 \in ParsedFileKeys :
              k1 # k2 => fix_path(k1, call_args.cwd) # fix_path(k2, call_args.cwd)
        /\ Len(call_result.file_coverage) = Cardinality(ParsedFileKeys)

\* The class loop stores the entry of a <class> whose filename already has
\* an entry from an earlier <class>.
SharedFilenameStep ==
    /\ pc = "lines" /\ pc' = "classes"
    /\ Get(class_elem, "filename", "") \in DOMAIN files

LineSets(entry) ==
    {entry.missing_lines[i] : i \in 1..Len(entry.missing_lines)}
    \cup {entry.covered_lines[i] : i \in 1..Len(entry.covered_lines)}
    \cup {entry.partial_lines[i] : i \in 1..Len(entry.partial_lines)}

\* C27 as stated (refuted by the code): when several <class> elements share
\* one filename, the files entry for that filename covers all of them:
\* the lines the entry held for the earlier classes are still in its
\* line_details and in one of its three line sets after a later class of
\* the same filename is stored.
C27_SharedFilenameKeepsAllLines ==
    [][SharedFilenameStep =>
          LET filename == Get(class_elem, "filename", "") IN
          /\ DOMAIN files[filename].line_details
                \subseteq DOMAIN files'[filename].line_details
          /\ LineSets(files[filename]) \subseteq LineSets(files'[filename])]_vars

(***************************************************************************)
(* _parse_existing_coverage on a JaCoCo report with two <sourcefile>       *)
(***************************************************************************)
AggregateLines ==
    {<<>>,
     <<("nr" :> "1") @@ ("ci" :> "0")>>,
     <<("nr" :> "1") @@ ("ci" :> "2"), ("nr" :> "2") @@ ("ci" :> "0")>>}

\* A report with <sourcefile name="Foo.java"> in package com/example and a
\* second <sourcefile> in a second <package>.
AggregateReport(pkg_name, filename, ls1, ls2) ==
    [kind |-> "xml", wellformed |-> TRUE, entities |-> "none", root_tag |-> "report",
     root |-> <<>>, packages_elem |-> <<>>,
     packages |-> <<[attrs |-> ("name" :> "com/example"),
                     sourcefiles |-> <<[name |-> "Foo.java", lines |-> ls1,
                                        counters |-> <<>>]>>],
                    [attrs |-> ("name" :> pkg_name),
                     sourcefiles |-> <<[name |-> filename, lines |-> ls2,
                                        counters |-> <<>>]>>]>>]

InitJacocoAggregate ==
    /\ report_file \in
         {[path |-> "target/site/jacoco/jacoco.xml", exists |-> TRUE,
           readable |-> TRUE, content |-> AggregateReport(n, f, ls1, ls2),
           disk |-> d] :
              n \in {"org/other", "org.other"}, f \in {"Foo.java", "Bar.java"},
              ls1 \in AggregateLines, ls2 \in AggregateLines,
              d \in SUBSET {"org/other/Foo.java", "src/Foo.java", "Foo.java"}}
    /\ outcome = <<>> /\ expanded = FALSE /\ attempts = <<>> /\ px_pc = "idle"
    /\ IdleCob /\ IdleSel /\ IdleOv /\ IdleAn

NextJacocoAggregate == ParseExistingCoverage

SpecJacocoAggregate == InitJacocoAggregate /\ [][NextJacocoAggregate]_vars

RECURSIVE SumOver(_, _)
SumOver(file_coverage, field) ==
    IF DOMAIN file_coverage = {} THEN 0
    ELSE LET k == CHOOSE k \in DOMAIN file_coverage : TRUE IN
         file_coverage[k][field]
         + SumOver([j \in DOMAIN file_coverage \ {k} |-> file_coverage[j]], field)

\* C28 as stated (refuted by the code): every <sourcefile> of the report
\* keeps its own entry in file_coverage, so metadata.total_covered and
\* metadata.total_missed equal the sums of covered and missed over the
\* entries, and overall_coverage is the percentage computed from those sums.
C28_JacocoAggregateConsistent ==
    (px_pc = "existing_returned" /\ outcome.exc = "none" /\ outcome.val # <<>>) =>
        /\ Cardinality(DOMAIN outcome.val.file_coverage) = 2
        /\ outcome.val.metadata.total_covered
              = SumOver(outcome.val.file_coverage, "covered")
        /\ outcome.val.metadata.total_missed
              = SumOver(outcome.val.file_coverage, "missed")
        /\ outcome.val.overall_coverage
              = percent(SumOver(outcome.val.file_coverage, "covered"),
                        SumOver(outcome.val.file_coverage, "covered")
                        + SumOver(outcome.val.file_coverage, "missed"))

\* C29 as stated (refuted by the code): create_test_pr is invoked only
\* after generate_tests has returned at least one test.
C29_PrOnlyWithGeneratedTests ==
    [][(an_pc = "create_pr" /\ an_pc' # "create_pr") =>
          call_result.generated_tests # <<>>]_vars

(***************************************************************************)
(* WebhookServer.process_pull_request                                      *)
(*                                                                         *)
(* call_args holds, next to the inputs of analyze_pr, the objects of the   *)
(* server: config is WebhookServer.config, analyzer_config is the Config   *)
(* PRCoverageAnalyzer.__init__ built for itself, threshold is the          *)
(* coverage_threshold CoverageAnalyzer.__init__ copied from that Config.   *)
(***************************************************************************)
\* Config.coverage_threshold: Field(80, env="COVERAGE_THRESHOLD")
DefaultThreshold == 80

\* repo_config.get('settings', {}) of a target repository.
RepoSettings ==
    {<<>>, ("coverage_threshold" :> 40), ("coverage_threshold" :> 95),
     ("coverage_threshold" :> DefaultThreshold)}

\* should_process_pr
should_process_pr(payload) ==
    payload.action \in {"opened", "synchronize", "reopened"} /\ ~payload.draft

Payloads ==
    {[target |-> TRUE, action |-> "opened", draft |-> FALSE],
     [target |-> FALSE, action |-> "opened", draft |-> FALSE],
     [target |-> TRUE, action |-> "closed", draft |-> FALSE],
     [target |-> TRUE, action |-> "synchronize", draft |-> TRUE]}

WebhookArgs(existing, r, payload, settings) ==
    [entry |-> "analyze_pr", existing |-> existing, report |-> r,
     threshold |-> DefaultThreshold, cwd |-> AbsPath(<<"repo">>),
     sources |-> {AbsPath(<<"repo", "src", "a.py">>)}, scenario |-> "ok",
     config |-> [coverage_threshold |-> DefaultThreshold],
     analyzer_config |-> [coverage_threshold |-> DefaultThreshold],
     original_threshold |-> DefaultThreshold,
     payload |-> payload, repo_settings |-> settings]

InitWebhook ==
    /\ \E payload \in Payloads, settings \in RepoSettings :
          call_args \in
             {WebhookArgs("coverage.xml", r, payload, settings) :
                 r \in ParsedReports(PrKeyPaths)}
             \cup {WebhookArgs(None, r, payload, settings) :
                      r \in CoverageRuns(PrKeyPaths)}
    /\ an_pc = "process_pull_request"
    /\ call_result = <<>> /\ calls = <<>>
    /\ IdleCob /\ IdleSel /\ IdleOv /\ IdlePx

\* process_pull_request up to the call of analyze_pr: skip a repository
\* that is no target and a pull request that is not to be processed; else
\* write the repository's coverage_threshold to self.config.
ProcessPullRequest ==
    /\ an_pc = "process_pull_request"
    /\ IF ~call_args.payload.target \/ ~should_process_pr(call_args.payload)
       THEN /\ call_result' = [status |-> "skipped"]
            /\ an_pc' = "webhook_returned"
            /\ call_args' = call_args
       ELSE /\ call_result' = call_result
            /\ an_pc' = "get_pr_info"
            /\ call_args' =
                 [call_args EXCEPT
                     !.original_threshold = call_args.config.coverage_threshold,
                     !.config.coverage_threshold =
                         Get(call_args.repo_settings, "coverage_threshold", @)]
    /\ UNCHANGED <<calls, cobVars, selVars, ovVars, pxVars>>

\* analyze_pr returned: result.update({...}), and the finally clause
\* restores self.config.coverage_threshold.
ReturnProcessed ==
    /\ an_pc = "pr_returned"
    /\ call_result' = [repo_config |-> call_args.repo_settings] @@ call_result
    /\ call_args' = [call_args EXCEPT
                        !.config.coverage_threshold = call_args.original_threshold]
    /\ an_pc' = "webhook_returned"
    /\ UNCHANGED <<calls, cobVars, selVars, ovVars, pxVars>>

NextWebhook ==
    \/ ProcessPullRequest
    \/ GetPrInfo
    \/ LocateReport \/ ParseReport \/ RunCoverage \/ SelectLowCoverage \/ ReconcilePaths
    \/ FindUncoveredAreas \/ GenerateTests \/ CreateTestPr \/ ReportAdequate
    \/ ReturnProcessed

SpecWebhook == InitWebhook /\ [][NextWebhook]_vars

\* analyze_coverage returned a report inside process_pull_request for a
\* repository whose settings define coverage_threshold.
AnalysedForRepository ==
    /\ an_pc = "returned"
    /\ "coverage_threshold" \in DOMAIN call_args.repo_settings
    /\ "threshold" \in DOMAIN call_result

\* C30 as stated (refuted by the code): in the analysis of a pull request
\* of a target repository whose settings define coverage_threshold, the
\* threshold of the result, the one meets_threshold is decided by and the
\* one the low-coverage areas are selected by is that repository's.
C30_RepositoryThresholdApplied ==
    AnalysedForRepository =>
        /\ call_result.threshold = call_args.repo_settings["coverage_threshold"]
        /\ call_result.meets_threshold =
              (call_result.overall_coverage
                  >= Pct(call_args.repo_settings["coverage_threshold"]))
        /\ \A i \in 1..Len(call_result.low_coverage_areas) :
              call_result.low_coverage_areas[i].current_coverage
                  < Pct(call_args.repo_settings["coverage_threshold"])

====
